---- MODULE Spec2Model ----
(***************************************************************************)
(* Model of the lakehouse ETL of fastapi_project_supabase_typesense:       *)
(*   etl/bronze_to_silver.py, etl/silver_to_gold.py, etl/sync_to_supabase, *)
(*   orchestration/run_etl.py and dags/lakehouse_watch_any_file.py.        *)
(*                                                                         *)
(* Data abstraction.  The content of a raw file or of a silver snapshot is *)
(* a version number (0 = file absent / empty frame).  The content of a     *)
(* gold table is the tuple of the versions it was computed from (<<>> =    *)
(* table absent).  A file name or path is a record [dir, name]; a bare     *)
(* file name has dir = "".                                                 *)
(***************************************************************************)
EXTENDS Integers, Sequences, FiniteSets, TLC

\* ------------------------------------------------------------------ bounds
MaxVer == 2
MaxChanged == 2
MaxTargets == 2
MaxSteps == 3
MaxFail == 1
MaxCycles == 3
MaxMtime == 4

\* ------------------------------------------------------- names and paths
BRONZE_DIR == "/lake/bronze"

Bare(n) == [dir |-> "", name |-> n]

\* os.path.basename
basename(p) == [dir |-> "", name |-> p.name]

\* str(BRONZE_DIR / os.path.basename(p))
bronze_path(p) == [dir |-> BRONZE_DIR, name |-> basename(p).name]

KnownFiles ==
  {"organization.csv", "project.csv", "topics.csv", "legalBasis.csv",
   "policyPriorities.csv", "euroSciVoc.csv", "webItem.csv", "webLink.csv"}

UnknownFile == "notes.csv"

\* the paths used as inputs, in the order of Python's sorted()
SortedPaths ==
  << [dir |-> BRONZE_DIR, name |-> "project.csv"],
     Bare("notes.csv"), Bare("organization.csv"), Bare("project.csv"),
     Bare("topics.csv"), Bare("webItem.csv") >>

InputPaths == {SortedPaths[i] : i \in 1..Len(SortedPaths)}

SortedList(S) == SelectSeq(SortedPaths, LAMBDA p : p \in S)

ChangeSets == {S \in SUBSET InputPaths : Cardinality(S) <= MaxChanged}

Range(s) == {s[i] : i \in 1..Len(s)}

\* ------------------------------------------------- etl/bronze_to_silver.py
SilverTables ==
  {"project", "organizations_info", "organizations_project", "topics",
   "legalBasis", "policyPriorities", "euroSciVoc", "webItem", "webLink"}

\* the silver snapshots written by the handler registered for a file
HandlerOutputs(f) ==
  CASE f = "project.csv"          -> {"project"}
    [] f = "organization.csv"     -> {"organizations_info", "organizations_project"}
    [] f = "topics.csv"           -> {"topics"}
    [] f = "legalBasis.csv"       -> {"legalBasis"}
    [] f = "policyPriorities.csv" -> {"policyPriorities"}
    [] f = "euroSciVoc.csv"       -> {"euroSciVoc"}
    [] f = "webItem.csv"          -> {"webItem"}
    [] f = "webLink.csv"          -> {"webLink"}
    [] OTHER                      -> {}

\* keys of FILE_TO_FUNC: bare file names
FILE_TO_FUNC == {Bare(f) : f \in KnownFiles}

\* one handler run_<dataset>_only(): empty source -> return, else write
run_handler(f, br, sv) ==
  IF br[f] = 0 THEN sv
  ELSE [t \in SilverTables |-> IF t \in HandlerOutputs(f) THEN br[f] ELSE sv[t]]

\* the handlers run_files(changed_files) invokes, in list order
handlers_of(files) ==
  SelectSeq(files, LAMBDA p : p \in FILE_TO_FUNC)

RECURSIVE apply_handlers(_, _, _)
apply_handlers(hs, br, sv) ==
  IF hs = <<>> THEN sv
  ELSE apply_handlers(Tail(hs), br, run_handler(Head(hs).name, br, sv))

\* Failure inputs: an action takes fail = k > 0 only where a k-th call exists,
\* so that every input of an action is a distinct execution.

\* run_files: fail = 0 no handler raises, fail = k the k-th handler raises
run_files(files, br, sv, fail) ==
  LET hs   == handlers_of(files)
      k    == IF fail > Len(hs) THEN 0 ELSE fail
      done == IF k = 0 THEN hs ELSE SubSeq(hs, 1, k - 1)
      inv  == IF k = 0 THEN hs ELSE SubSeq(hs, 1, k)
  IN [raised |-> k # 0,
      handlers |-> {inv[i].name : i \in 1..Len(inv)},
      silver |-> apply_handlers(done, br, sv)]

\* values(FILE_TO_FUNC) in dict order
AllHandlers ==
  << Bare("project.csv"), Bare("organization.csv"), Bare("topics.csv"),
     Bare("legalBasis.csv"), Bare("policyPriorities.csv"),
     Bare("euroSciVoc.csv"), Bare("webItem.csv"), Bare("webLink.csv") >>

\* run(): every handler
b2s_run(br, sv, fail) == run_files(AllHandlers, br, sv, fail)

\* -------------------------------------------------- etl/silver_to_gold.py
GoldTables ==
  {"dim_project", "dim_organization", "fact_funding", "dim_time",
   "dim_country", "dim_program", "bridge_project_program", "dim_topic",
   "bridge_project_topic", "dim_status", "bridge_project_status"}

UnknownTarget == "dim_unknown"

\* TABLE_BUILDERS: gold table name -> builder function
TABLE_BUILDERS ==
  [t \in GoldTables |->
     CASE t = "dim_project"            -> "build_dim_project"
       [] t = "dim_organization"       -> "build_dim_organization"
       [] t = "fact_funding"           -> "build_fact_funding"
       [] t = "dim_time"               -> "build_dim_time"
       [] t = "dim_country"            -> "build_dim_country"
       [] t = "dim_topic"              -> "build_dim_topic_and_bridge"
       [] t = "bridge_project_topic"   -> "build_dim_topic_and_bridge"
       [] t = "dim_program"            -> "build_dim_program_and_bridge"
       [] t = "bridge_project_program" -> "build_dim_program_and_bridge"
       [] t = "dim_status"             -> "build_status_and_bridge"
       [] t = "bridge_project_status"  -> "build_status_and_bridge"]

Builders == {TABLE_BUILDERS[t] : t \in GoldTables}

\* the gold tables a builder writes with to_parquet
BuilderWrites(b) ==
  CASE b = "build_dim_project"            -> {"dim_project"}
    [] b = "build_dim_organization"       -> {"dim_organization"}
    [] b = "build_fact_funding"           -> {"fact_funding"}
    [] b = "build_dim_time"               -> {"dim_time"}
    [] b = "build_dim_country"            -> {"dim_country"}
    [] b = "build_dim_topic_and_bridge"   -> {"dim_topic", "bridge_project_topic"}
    [] b = "build_dim_program_and_bridge" -> {"dim_program", "bridge_project_program"}
    [] b = "build_status_and_bridge"      -> {"dim_status", "bridge_project_status"}

\* the gold tables a builder reads with pd.read_parquet(GOLD / ...)
BuilderReadsGold(b) ==
  CASE b = "build_fact_funding"      -> {"dim_organization", "dim_project"}
    [] b = "build_dim_time"          -> {"dim_project"}
    [] b = "build_dim_country"       -> {"dim_organization"}
    [] b = "build_status_and_bridge" -> {"dim_project"}
    [] OTHER                         -> {}

\* the content a builder computes; <<>> when it returns at "no source"
BuilderValue(b, sv, g) ==
  CASE b = "build_dim_project" ->
         IF sv["project"] = 0 THEN <<>> ELSE <<sv["project"]>>
    [] b = "build_dim_organization" ->
         IF sv["organizations_info"] = 0 /\ sv["organizations_project"] = 0
         THEN <<>>
         ELSE IF sv["organizations_info"] # 0
              THEN <<sv["organizations_info"], 0>>
              ELSE <<0, sv["organizations_project"]>>
    [] b = "build_fact_funding" ->
         IF sv["organizations_project"] = 0 \/ g["dim_organization"] = <<>>
         THEN <<>>
         ELSE <<sv["organizations_project"]>> \o g["dim_organization"]
                \o g["dim_project"]
    [] b = "build_dim_time" -> g["dim_project"]
    [] b = "build_dim_country" -> g["dim_organization"]
    [] b = "build_dim_topic_and_bridge" ->
         IF sv["topics"] = 0 THEN <<>> ELSE <<sv["topics"]>>
    [] b = "build_dim_program_and_bridge" ->
         IF sv["legalBasis"] = 0 THEN <<>> ELSE <<sv["legalBasis"]>>
    [] b = "build_status_and_bridge" -> g["dim_project"]

run_builder_append(b, sv, g) ==
  LET v == BuilderValue(b, sv, g)
  IN IF v = <<>> THEN g
     ELSE [t \in GoldTables |-> IF t \in BuilderWrites(b) THEN g[t] \o v ELSE g[t]]

\* one call TABLE_BUILDERS[t]()
run_builder(b, sv, g) ==
  LET v == BuilderValue(b, sv, g)
  IN IF v = <<>> THEN g
     ELSE [t \in GoldTables |-> IF t \in BuilderWrites(b) THEN v ELSE g[t]]

\* order with the fact table listed before the dimensions it joins
order_fact_first ==
  << "fact_funding", "dim_project", "dim_organization", "dim_time",
     "dim_country", "dim_program", "bridge_project_program", "dim_topic",
     "bridge_project_topic", "dim_status", "bridge_project_status" >>

\* "Orden minimo por dependencias"
order ==
  << "dim_project", "dim_organization", "fact_funding", "dim_time",
     "dim_country", "dim_program", "bridge_project_program", "dim_topic",
     "bridge_project_topic", "dim_status", "bridge_project_status" >>

\* an arbitrary enumeration of a finite set (iteration over a Python set)
RECURSIVE SetToSeq(_)
SetToSeq(S) ==
  IF S = {} THEN <<>>
  ELSE LET x == CHOOSE y \in S : TRUE IN <<x>> \o SetToSeq(S \ {x})

\* gold_plan that also selects the builders of the gold tables the named
\* targets read (transitive rebuild of dependencies)
gold_plan_with_deps(only) ==
  LET named   == IF only = {} THEN DOMAIN TABLE_BUILDERS ELSE only
      deps    == UNION {BuilderReadsGold(TABLE_BUILDERS[t]) :
                          t \in named \cap DOMAIN TABLE_BUILDERS}
      targets == named \cup deps
      first   == SelectSeq(order, LAMBDA t : t \in targets)
      seen    == Range(first)
      rest    == {t \in targets : t \notin seen /\ t \in DOMAIN TABLE_BUILDERS}
  IN first \o SetToSeq(rest)

\* the sequence of targets whose builder run(only) calls: the first loop
\* over order, then the targets left that TABLE_BUILDERS knows
gold_plan(only) ==
  LET targets == IF only = {} THEN DOMAIN TABLE_BUILDERS ELSE only
      first   == SelectSeq(order, LAMBDA t : t \in targets)
      seen    == Range(first)
      rest    == {t \in targets : t \notin seen /\ t \in DOMAIN TABLE_BUILDERS}
  IN first \o SetToSeq(rest)

RECURSIVE apply_builders(_, _, _)
apply_builders(plan, sv, g) ==
  IF plan = <<>> THEN g
  ELSE apply_builders(Tail(plan), sv,
                      run_builder(TABLE_BUILDERS[Head(plan)], sv, g))

\* run(only): fail = 0 no builder raises, fail = k the k-th call raises
s2g_run(only, sv, g, fail) ==
  LET plan == gold_plan(only)
      k    == IF fail > Len(plan) THEN 0 ELSE fail
      done == IF k = 0 THEN plan ELSE SubSeq(plan, 1, k - 1)
      inv  == IF k = 0 THEN plan ELSE SubSeq(plan, 1, k)
  IN [raised |-> k # 0, calls |-> inv, gold |-> apply_builders(done, sv, g)]

\* run_targets(targets): alias of run(only=targets)
run_targets(targets, sv, g, fail) == s2g_run(targets, sv, g, fail)

\* SOURCE_TO_GOLD: csv file name -> gold tables
SOURCE_TO_GOLD(s) ==
  CASE s = "project.csv"      -> {"dim_project", "dim_time", "dim_status"}
    [] s = "organization.csv" -> {"dim_organization", "dim_country", "fact_funding"}
    [] s = "topics.csv"       -> {"dim_topic", "bridge_project_topic"}
    [] s = "legalBasis.csv"   -> {"dim_program", "bridge_project_program"}
    [] OTHER                  -> {}

\* gold_targets of run_for_sources: keys are looked up as given
sources_gold_targets(sources) ==
  UNION {IF p.dir = "" THEN SOURCE_TO_GOLD(p.name) ELSE {} : p \in sources}

\* run_for_sources(sources): run(only=gold_targets)
run_for_sources(sources, sv, g, fail) ==
  s2g_run(sources_gold_targets(sources), sv, g, fail)

\* ------------------------------------------------ etl/sync_to_supabase.py
\* TABLES in list order
TABLES ==
  << "dim_project", "dim_organization", "fact_funding", "dim_time",
     "dim_country", "dim_program", "bridge_project_program", "dim_topic",
     "bridge_project_topic", "dim_status", "bridge_project_status" >>

\* the loop over the selected tables: an empty or missing snapshot is
\* skipped, any other replaces the table of the same name (if_exists="replace")
load_tables(sel, g, st) ==
  [t \in GoldTables |->
     IF t \in Range(sel) /\ g[t] # <<>> THEN g[t] ELSE st[t]]

sync_run_fail_on_missing(only, g, st, fail) ==
  LET selected == IF only = {} THEN TABLES
                  ELSE SelectSeq(TABLES, LAMBDA t : t \in only)
      missing  == {i \in 1..Len(selected) : g[selected[i]] = <<>>}
      k        == IF missing # {}
                  THEN CHOOSE i \in missing : \A j \in missing : i <= j
                  ELSE IF fail > Len(selected) THEN 0 ELSE fail
      done     == IF k = 0 THEN selected ELSE SubSeq(selected, 1, k - 1)
  IN [raised |-> k # 0, failed |-> k, store |-> load_tables(done, g, st)]

\* run(only): every to_sql commits on its own connection (con=engine);
\* fail = k: loading the k-th selected table (or connecting, k = 1) raises;
\* failed is the position of the table that raised, 0 if none
sync_run(only, g, st, fail) ==
  LET selected == IF only = {} THEN TABLES
                  ELSE SelectSeq(TABLES, LAMBDA t : t \in only)
      k        == IF fail > Len(selected) THEN 0 ELSE fail
      done     == IF k = 0 THEN selected ELSE SubSeq(selected, 1, k - 1)
  IN [raised |-> k # 0, failed |-> k, store |-> load_tables(done, g, st)]

\* --------------------------------- etl/sync_to_supabase.py, statement level
MaxWidth == 7
MaxSyncFail == 2

MAX_PARAMS == 60000

\* number of columns of a gold snapshot whose sources carry w of the
\* columns the builders look for: every builder keeps the columns it finds
\* among a fixed list, and adds its keys
GoldColumnsLo(t) ==
  CASE t \in {"dim_project", "dim_organization"} -> 1
    [] t = "dim_time" -> 8
    [] OTHER -> 2

GoldColumnsHi(t) ==
  CASE t \in {"dim_project", "dim_organization"} -> 12
    [] t = "fact_funding" -> 6
    [] t = "dim_time" -> 8
    [] t \in {"dim_topic", "dim_program"} -> 3
    [] OTHER -> 2

columns(t, w) ==
  IF w < GoldColumnsLo(t) THEN GoldColumnsLo(t)
  ELSE IF w > GoldColumnsHi(t) THEN GoldColumnsHi(t) ELSE w

Max(a, b) == IF a > b THEN a ELSE b

safe_chunksize_rounded_up(cols) ==
  Max(1, (MAX_PARAMS + Max(1, cols) - 1) \div Max(1, cols))

\* _safe_chunksize(df)
safe_chunksize(cols) == Max(1, MAX_PARAMS \div Max(1, cols))

\* SELECT COUNT(*): the size of a table content (0 for none)
row_count(c) == Len(c)

\* the statements of _create_indexes, in order, with the table of each
INDEX_STMTS ==
  << [name |-> "ix_dim_project_projectid", table |-> "dim_project"],
     [name |-> "ix_dim_project_year", table |-> "dim_project"],
     [name |-> "ux_dim_organization_org_sk", table |-> "dim_organization"],
     [name |-> "ix_dim_organization_organisationid",
      table |-> "dim_organization"],
     [name |-> "ux_dim_time_date_key", table |-> "dim_time"],
     [name |-> "ux_dim_country_country_key", table |-> "dim_country"],
     [name |-> "ux_dim_program_program_id", table |-> "dim_program"],
     [name |-> "ux_dim_topic_topic_id", table |-> "dim_topic"],
     [name |-> "ux_dim_status_status_id", table |-> "dim_status"],
     [name |-> "ix_bpp_project", table |-> "bridge_project_program"],
     [name |-> "ix_bpp_prog", table |-> "bridge_project_program"],
     [name |-> "ix_bpt_project", table |-> "bridge_project_topic"],
     [name |-> "ix_bpt_topic", table |-> "bridge_project_topic"],
     [name |-> "ix_bps_project", table |-> "bridge_project_status"],
     [name |-> "ix_bps_status", table |-> "bridge_project_status"],
     [name |-> "ix_fact_funding_projectid", table |-> "fact_funding"],
     [name |-> "ix_fact_funding_org_sk", table |-> "fact_funding"],
     [name |-> "ix_fact_funding_year", table |-> "fact_funding"] >>

IndexNames == {INDEX_STMTS[i].name : i \in 1..Len(INDEX_STMTS)}

IndexesOf(T) ==
  {INDEX_STMTS[i].name : i \in {j \in 1..Len(INDEX_STMTS) :
                                  INDEX_STMTS[j].table \in T}}

\* whether the i-th CREATE INDEX raises: its table is missing, or the
\* store refuses it (idxFail = i, e.g. duplicate keys under a UNIQUE index)
index_stmt_fails(st, idxFail, i) ==
  idxFail = i \/ st[INDEX_STMTS[i].table] = <<>>

create_indexes_stop_at_failure(st, ix, idxFail) ==
  LET failing == {i \in 1..Len(INDEX_STMTS) : index_stmt_fails(st, idxFail, i)}
      n       == IF failing = {} THEN Len(INDEX_STMTS)
                 ELSE CHOOSE i \in failing : \A j \in failing : i <= j
  IN [raised |-> FALSE,
      attempts |-> [i \in 1..n |->
                      [name |-> INDEX_STMTS[i].name,
                       ok |-> \A j \in failing : i < j]],
      indexes |-> IF failing = {} THEN ix \cup IndexNames ELSE ix]

\* _create_indexes(conn): every statement is executed, an exception of any
\* is caught and logged.  All run in the transaction of conn: after a
\* failed statement the store rejects the later ones and commits nothing
create_indexes(st, ix, idxFail) ==
  LET failing == {i \in 1..Len(INDEX_STMTS) : index_stmt_fails(st, idxFail, i)}
  IN [raised |-> FALSE,
      attempts |-> [i \in 1..Len(INDEX_STMTS) |->
                      [name |-> INDEX_STMTS[i].name,
                       ok |-> \A j \in failing : i < j]],
      indexes |-> IF failing = {} THEN ix \cup IndexNames ELSE ix]

\* the entry of summary for one selected table
summary_entry(t, g, w) ==
  IF g[t] = <<>>
  THEN [table |-> t, count |-> 0, status |-> "SKIPPED (no data)",
        chunksize |-> 0, cols |-> 0]
  ELSE [table |-> t, count |-> row_count(g[t]), status |-> "OK",
        chunksize |-> safe_chunksize(columns(t, w)),
        cols |-> columns(t, w)]

selected_tables(only) ==
  IF only = {} THEN TABLES ELSE SelectSeq(TABLES, LAMBDA t : t \in only)

\* run(only) with its summary, its statements and the indexes: to_sql with
\* if_exists="replace" drops the table, and its indexes with it
sync_statements(only, g, st, ix, fail, idxFail, w) ==
  LET selected == selected_tables(only)
      y        == sync_run(only, g, st, fail)
      done     == IF ~y.raised THEN selected
                  ELSE SubSeq(selected, 1, y.failed - 1)
      ix1      == ix \ IndexesOf({t \in Range(done) : g[t] # <<>>})
      ci       == create_indexes(y.store, ix1, idxFail)
  IN [raised |-> y.raised \/ ci.raised,
      store |-> y.store,
      summary |-> IF y.raised \/ ci.raised THEN <<>>
                  ELSE [i \in 1..Len(selected) |->
                          summary_entry(selected[i], g, w)],
      log |-> [i \in 1..Len(done) |->
                 [kind |-> IF g[done[i]] = <<>> THEN "skip" ELSE "replace",
                  name |-> done[i], ok |-> TRUE]]
              \o (IF y.raised
                  THEN << [kind |-> "error", name |-> selected[y.failed],
                           ok |-> FALSE] >>
                  ELSE [i \in 1..Len(ci.attempts) |->
                          [kind |-> "index", name |-> ci.attempts[i].name,
                           ok |-> ci.attempts[i].ok]]),
      indexes |-> IF y.raised THEN ix1 ELSE ci.indexes]

\* ------------------------------------------ etl/index_projects_typesense.py
MaxIds == 2
MaxBatch == 2

Ids == 1..MaxIds

\* strings are sequences of characters; Python's None is a value of its own
None == <<"None">>
SEP == <<" ", "|", " ">>

Titles == {<<"a">>, <<" ", "a">>, <<"b">>}
Abstracts == {None, <<"x">>}
Countries == {None, <<"E">>}
Years == {2020, 2021}

Rows == [title : Titles, abstract : Abstracts, country : Countries,
         year : Years]

BaseRow == [title |-> <<"a">>, abstract |-> None, country |-> <<"E">>,
            year |-> 2020]

Digit(d) == <<"0", "1", "2", "3", "4", "5", "6", "7", "8", "9">>[d + 1]

\* str(n) of a natural number
RECURSIVE str_int(_)
str_int(n) == IF n < 10 THEN <<Digit(n)>>
              ELSE str_int(n \div 10) \o <<Digit(n % 10)>>

\* str(v or "") of a text field: None and the empty string are falsy
str_or(v) == IF v = None \/ v = <<>> THEN <<>> ELSE v

\* str(year or ""): 0 is falsy
str_year_or(y) == IF y = 0 THEN <<>> ELSE str_int(y)

RECURSIVE lstrip(_)
lstrip(t) == IF t # <<>> /\ Head(t) = " " THEN lstrip(Tail(t)) ELSE t

RECURSIVE rstrip(_)
rstrip(t) == IF t # <<>> /\ t[Len(t)] = " "
             THEN rstrip(SubSeq(t, 1, Len(t) - 1)) ELSE t

strip(t) == rstrip(lstrip(t))

\* " | ".join([title, abstract, country, year]).strip()
concat_text(row) ==
  strip(str_or(row.title) \o SEP \o str_or(row.abstract) \o SEP
          \o str_or(row.country) \o SEP \o str_year_or(row.year))

\* sha256 hex digest: one digest per text (collisions are out of reach)
text_hash(t) == [sha256 |-> t]

\* the vector the embedding service computes for a text
embedding_of(t) == [of |-> t]

\* what the service does with one batch: "ok" one vector per input in input
\* order; "error" an HTTP error or timeout; the others answer 200 with a
\* number of vectors different from the number of inputs
Faults == {"error", "drop_first", "drop_last", "extra"}

\* _embed_batch_sync(texts): raise_for_status raises on "error", any list
\* of vectors is returned as it came
embed_batch_sync(texts, kind) ==
  [raised |-> kind = "error",
   vecs |-> CASE kind = "error" -> <<>>
              [] kind = "drop_first" -> [i \in 1..(Len(texts) - 1) |->
                                           embedding_of(texts[i + 1])]
              [] kind = "drop_last" -> [i \in 1..(Len(texts) - 1) |->
                                          embedding_of(texts[i])]
              [] kind = "extra" -> [i \in 1..Len(texts) |->
                                      embedding_of(texts[i])]
                                     \o <<embedding_of(<<>>)>>
              [] OTHER -> [i \in 1..Len(texts) |-> embedding_of(texts[i])]]

\* _fetch_existing_hashes: project_id -> text_hash of the stored records
fetch_existing_hashes(sr) ==
  [id \in DOMAIN sr |-> sr[id].text_hash]

\* the rows of the snapshot, by id
IdSeq == [i \in 1..MaxIds |-> i]

row_ids(pr) == SelectSeq(IdSeq, LAMBDA id : id \in DOMAIN pr)

\* the mask of to_compute: id not among the stored ones, or stored hash
\* (fillna("") for a missing one) different from the fresh hash
needs_compute_always(pr, existing, id) == TRUE

needs_compute(pr, existing, id) ==
  \/ id \notin DOMAIN existing
  \/ existing[id] # text_hash(concat_text(pr[id]))

to_compute(pr, sr) ==
  SelectSeq(row_ids(pr),
            LAMBDA id : needs_compute(pr, fetch_existing_hashes(sr), id))

\* to_compute.iloc[i:i+BATCH] for i = 0, BATCH, ...: the k-th chunk
chunk(tc, bs, k) ==
  SubSeq(tc, (k - 1) * bs + 1,
         IF k * bs < Len(tc) THEN k * bs ELSE Len(tc))

num_chunks(tc, bs) == (Len(tc) + bs - 1) \div bs

\* the tuple appended to inserts for one row and its vector
insert_tuple(pr, id, vec) ==
  [project_id |-> id,
   title |-> str_or(pr[id].title),
   abstract |-> str_or(pr[id].abstract),
   country |-> IF pr[id].country = None THEN None
               ELSE str_or(pr[id].country),
   year |-> pr[id].year,
   text_hash |-> text_hash(concat_text(pr[id])),
   embedding |-> vec]

\* for (idx, row), vec in zip(chunk.iterrows(), vecs): zip stops at the
\* shorter of the two
zip_inserts(pr, ch, vecs) ==
  [i \in 1..(IF Len(vecs) < Len(ch) THEN Len(vecs) ELSE Len(ch)) |->
     insert_tuple(pr, ch[i], vecs[i])]

NoFault == [batch |-> 0, kind |-> "ok"]

\* the loop "for i in range(0, len(to_compute), BATCH)" from the k-th chunk
\* on: every chunk is sent to the service, its rows zipped with the
\* vectors are appended to inserts; a raising call ends the loop.  sent
\* keeps the ids of every call and the number of vectors it returned (-1
\* if it raised)
RECURSIVE embed_chunks(_, _, _, _, _, _)
embed_chunks(pr, tc, bs, k, fault, acc) ==
  IF k > num_chunks(tc, bs) THEN acc
  ELSE LET ch    == chunk(tc, bs, k)
           texts == [i \in 1..Len(ch) |-> concat_text(pr[ch[i]])]
           r     == embed_batch_sync(texts, IF fault.batch = k
                                            THEN fault.kind ELSE "ok")
       IN IF r.raised
          THEN [raised |-> TRUE,
                sent |-> Append(acc.sent, [ids |-> ch, vecs |-> -1]),
                inserts |-> acc.inserts]
          ELSE embed_chunks(pr, tc, bs, k + 1, fault,
                            [raised |-> FALSE,
                             sent |-> Append(acc.sent,
                                             [ids |-> ch,
                                              vecs |-> Len(r.vecs)]),
                             inserts |-> acc.inserts
                                           \o zip_inserts(pr, ch, r.vecs)])

\* the record INSERT ... ON CONFLICT (project_id) DO UPDATE leaves for one
\* tuple; upsert names the statement (the run) that wrote each column
stored_record(t, run) ==
  [title |-> t.title, abstract |-> t.abstract, country |-> t.country,
   year |-> t.year, text_hash |-> t.text_hash, embedding |-> t.embedding,
   upsert |-> [fields |-> run, text_hash |-> run, embedding |-> run]]

upsert_rows_replace(sr, rows, run) ==
  [id \in {rows[i].project_id : i \in 1..Len(rows)} |->
     stored_record(
       rows[CHOOSE i \in 1..Len(rows) : rows[i].project_id = id], run)]

\* _upsert_rows(engine, rows) in one transaction; the ids of rows are
\* distinct (to_compute holds every id once)
upsert_rows(sr, rows, run) ==
  [id \in DOMAIN sr \cup {rows[i].project_id : i \in 1..Len(rows)} |->
     IF \E i \in 1..Len(rows) : rows[i].project_id = id
     THEN stored_record(
            rows[CHOOSE i \in 1..Len(rows) : rows[i].project_id = id], run)
     ELSE sr[id]]

\* main(): hashes, to_compute, the embedding loop, then one upsert of all
\* the inserts; an exception of the loop leaves main before the upsert
index_main(pr, sr, bs, fault, run) ==
  LET tc == to_compute(pr, sr)
      e  == embed_chunks(pr, tc, bs, 1, fault,
                         [raised |-> FALSE, sent |-> <<>>, inserts |-> <<>>])
  IN [raised |-> e.raised,
      needed |-> Range(tc),
      sent |-> e.sent,
      upserted |-> IF e.raised THEN {}
                   ELSE {e.inserts[i].project_id : i \in 1..Len(e.inserts)},
      search |-> IF e.raised THEN sr ELSE upsert_rows(sr, e.inserts, run),
      indexed |-> IF e.raised THEN -1 ELSE Len(e.inserts)]


\* ------------------------------------ etl/bronze_to_silver.py, row level
MaxRows == 2

RowFiles == {"project.csv", "organization.csv", "topics.csv"}

RowSnapshots ==
  {"project", "organizations_info", "organizations_project", "topics"}

\* a data frame is the sequence of its rows, a row a record column -> value;
\* the empty frame is <<>>
Frames(R) == UNION {[1..n -> R] : n \in 0..MaxRows}

ProjectIds == {1, 2}
OrgIds == {<<"7">>, <<"7", " ">>, <<"8">>}

\* the frames _safe_read_csv returns for a raw file: project.csv with the
\* key column named projectID or id, or without it; organization.csv with
\* organisationID as read (not stripped); topics.csv
RawFrames(f) ==
  CASE f = "project.csv" ->
         Frames([projectID : ProjectIds, title : {"t", "u"}])
           \cup Frames([id : ProjectIds, title : {"t", "u"}])
           \cup Frames([title : {"t", "u"}])
    [] f = "organization.csv" ->
         Frames([organisationID : OrgIds, name : {"n", "m"},
                 projectID : ProjectIds])
    [] f = "topics.csv" ->
         Frames([projectID : ProjectIds, topic : {"x", "y"}])

\* df[cols] of one row
row_cols(r, cols) == [c \in cols \cap DOMAIN r |-> r[c]]

\* df.drop_duplicates(subset=cols): of the rows equal in cols the first is
\* kept, in the order of the frame
RECURSIVE drop_duplicates_subset(_, _)
drop_duplicates_subset(df, cols) ==
  IF df = <<>> THEN <<>>
  ELSE LET init == drop_duplicates_subset(SubSeq(df, 1, Len(df) - 1), cols)
           last == df[Len(df)]
       IN IF \E i \in 1..Len(init) :
               row_cols(init[i], cols) = row_cols(last, cols)
          THEN init ELSE Append(init, last)

\* df.drop_duplicates(): rows equal in every column
drop_duplicates(df) ==
  IF df = <<>> THEN <<>> ELSE drop_duplicates_subset(df, DOMAIN df[1])

\* df.rename(columns={old: new}) when old is a column and new is not
rename_col(df, old, new) ==
  [i \in 1..Len(df) |->
     IF old \in DOMAIN df[i] /\ new \notin DOMAIN df[i]
     THEN [c \in (DOMAIN df[i] \ {old}) \cup {new} |->
             IF c = new THEN df[i][old] ELSE df[i][c]]
     ELSE df[i]]

\* df[col].astype(str).str.strip() when col is a column
strip_col(df, col) ==
  [i \in 1..Len(df) |->
     IF col \in DOMAIN df[i]
     THEN [df[i] EXCEPT ![col] = strip(df[i][col])] ELSE df[i]]

\* df[cols]
frame_cols(df, cols) == [i \in 1..Len(df) |-> row_cols(df[i], cols)]

\* df.to_parquet(SILVER / name)
to_parquet(sv, name, df) == [sv EXCEPT ![name] = df]

\* run_projects_only(): rename id, then drop_duplicates on projectID if
\* the column exists, on whole rows otherwise
run_projects_only(raw, sv) ==
  IF raw["project.csv"] = <<>> THEN sv
  ELSE LET df == rename_col(raw["project.csv"], "id", "projectID")
       IN to_parquet(sv, "project",
                     IF "projectID" \in DOMAIN df[1]
                     THEN drop_duplicates_subset(df, {"projectID"})
                     ELSE drop_duplicates(df))

\* run_organizations_only(): info keeps the organisation columns, rel the
\* others and organisationID; both are deduplicated on whole rows
run_organizations_only(raw, sv) ==
  IF raw["organization.csv"] = <<>> THEN sv
  ELSE LET df   == raw["organization.csv"]
           info == drop_duplicates(
                     strip_col(frame_cols(df, {"organisationID", "name"}),
                               "organisationID"))
           rel  == drop_duplicates(
                     strip_col(frame_cols(df, {"organisationID", "projectID"}),
                               "organisationID"))
       IN to_parquet(to_parquet(sv, "organizations_info", info),
                     "organizations_project", rel)

\* run_topics_only(): the frame is written as read
run_topics_only(raw, sv) ==
  IF raw["topics.csv"] = <<>> THEN sv
  ELSE to_parquet(sv, "topics", raw["topics.csv"])

\* FILE_TO_FUNC[f]() on the rows
run_handler_rows(f, raw, sv) ==
  CASE f = "project.csv"      -> run_projects_only(raw, sv)
    [] f = "organization.csv" -> run_organizations_only(raw, sv)
    [] f = "topics.csv"       -> run_topics_only(raw, sv)
    [] OTHER                  -> sv

\* --------------------------------- api/auth.py, api/routes/seed.py, raw.py
\* BRONZE_MAX_UPLOAD_MB of the deployment; CHUNK is 1 MB
MAX_MB == 2
MaxRequests == 2

\* the Authorization header of a request
Credentials == {"none", "wrong", "valid"}

\* dependencies=[Depends(basic_auth)] of the route decorators; main.py
\* includes the routers without dependencies
route_dependencies(route) ==
  CASE route = "POST /raw"     -> {"basic_auth"}
    [] route = "GET /raw/list" -> {"basic_auth"}
    [] route = "POST /seed/"   -> {}

\* HTTPBasic() answers 401 without credentials; basic_auth 500 when the
\* environment has no user/password, 401 on a mismatch; 0 = request passes
basic_auth(cred, configured) ==
  IF cred = "none" THEN 401
  ELSE IF ~configured THEN 500
  ELSE IF cred # "valid" THEN 401 ELSE 0

\* the status the dependencies of a route give a request, 0 = it passes
auth_status(route, cred, configured) ==
  IF "basic_auth" \in route_dependencies(route)
  THEN basic_auth(cred, configured) ELSE 0

\* what the Airflow REST API does with the request of seed_everything
AirflowAnswers == {"accepted", "rejected", "unreachable"}

\* seed_everything(): requests.post to .../dags/lakehouse_full_run/dagRuns;
\* an error status is caught and reported in a 200; when the post itself
\* raises, resp is unbound in the except block and the handler raises
seed_everything(airflow) ==
  [status |-> IF airflow = "unreachable" THEN 500 ELSE 200,
   triggered |-> airflow = "accepted"]

\* POST /seed: the only route is /seed/, the application redirects to it
\* (307) and the client follows or not
post_seed(cred, configured, airflow, follow) ==
  IF ~follow THEN [status |-> 307, triggered |-> FALSE]
  ELSE IF auth_status("POST /seed/", cred, configured) # 0
  THEN [status |-> auth_status("POST /seed/", cred, configured),
        triggered |-> FALSE]
  ELSE seed_everything(airflow)

\* the file names of an upload
UploadNames ==
  {Bare("project.csv"), [dir |-> "..", name |-> "organization.csv"],
   Bare("notes.txt")}

\* _secure_csv_name(name): the base name if it ends with .csv, "" when it
\* raises HTTPException(422)
secure_csv_name(p) ==
  IF basename(p).name \in KnownFiles \cup {UnknownFile}
  THEN basename(p).name ELSE ""

\* tempfile.NamedTemporaryFile(dir=BRONZE_DIR, delete=False): a name no
\* file of the directory has
new_tmp_name(tmp) == CHOOSE n \in 1..(Cardinality(DOMAIN tmp) + 1) : n \notin DOMAIN tmp

\* ------------------------------------------------ orchestration/run_etl.py
FILE2SOURCE(name) ==
  CASE name = "organization.csv"     -> "organizations"
    [] name = "project.csv"          -> "projects"
    [] name = "topics.csv"           -> "topics"
    [] name = "legalBasis.csv"       -> "legalBasis"
    [] name = "policyPriorities.csv" -> "policyPriorities"
    [] name = "euroSciVoc.csv"       -> "euroSciVoc"
    [] name = "webItem.csv"          -> "webItem"
    [] name = "webLink.csv"          -> "webLink"
    [] OTHER                         -> ""

GOLD_BY_SOURCE(s) ==
  CASE s = "projects" ->
         {"dim_project", "fact_funding", "dim_status", "dim_program",
          "bridge_project_program", "dim_topic", "bridge_project_topic"}
    [] s = "organizations" -> {"dim_organization"}
    [] OTHER -> {}

\* normalize_changed_files with FILE2SOURCE.get(name, name): an unknown
\* name becomes a source of its own
normalize_changed_files_keep_unknown(changed_files) ==
  {IF FILE2SOURCE(basename(changed_files[i]).name) = ""
   THEN basename(changed_files[i]).name
   ELSE FILE2SOURCE(basename(changed_files[i]).name) :
     i \in 1..Len(changed_files)}

\* changed CSV list -> set of silver sources; unknown names are ignored
normalize_changed_files(changed_files) ==
  {FILE2SOURCE(basename(changed_files[i]).name) :
     i \in 1..Len(changed_files)} \ {""}

gold_targets_for_sources(sources) ==
  UNION {GOLD_BY_SOURCE(s) : s \in sources}

\* what the imported stage module exposes (hasattr / inspect.signature)
ModuleCaps ==
  [run_files : BOOLEAN, run : BOOLEAN, run_only : BOOLEAN,
   run_targets : BOOLEAN]

\* the modules of this repository
RepoCaps ==
  [run_files |-> TRUE, run |-> TRUE, run_only |-> FALSE, run_targets |-> TRUE]

\* _run_bronze_to_silver(only_sources, bronze_changed_files).  The body of
\* a run(only=...) of another module variant is not part of the repository:
\* only the call is recorded.
run_bronze_to_silver(caps, only_sources, files, br, sv, fail) ==
  IF caps.run_files
  THEN LET r == run_files(files, br, sv, fail)
       IN [raised |-> IF r.raised THEN "Exception" ELSE "none",
           entry |-> {"b2s.run_files"}, handlers |-> r.handlers,
           silver |-> r.silver]
  ELSE IF caps.run
  THEN IF caps.run_only
       THEN [raised |-> "none",
             entry |-> IF only_sources # {} THEN {"b2s.run(only)"} ELSE {},
             handlers |-> {}, silver |-> sv]
       ELSE [raised |-> "RuntimeError", entry |-> {}, handlers |-> {},
             silver |-> sv]
  ELSE [raised |-> "RuntimeError", entry |-> {}, handlers |-> {},
        silver |-> sv]

\* _run_silver_to_gold that falls back to the full run() when the module
\* has no run_targets
run_silver_to_gold_fallback(caps, targets, sv, g, fail) ==
  IF targets = {}
  THEN [raised |-> "none", entry |-> {}, calls |-> <<>>, gold |-> g]
  ELSE LET r == IF caps.run_targets THEN run_targets(targets, sv, g, fail)
                ELSE s2g_run({}, sv, g, fail)
       IN [raised |-> IF r.raised THEN "Exception" ELSE "none",
           entry |-> IF caps.run_targets THEN {"s2g.run_targets"}
                     ELSE {"s2g.run"},
           calls |-> r.calls, gold |-> r.gold]

\* _run_silver_to_gold(targets)
run_silver_to_gold(caps, targets, sv, g, fail) ==
  IF targets = {}
  THEN [raised |-> "none", entry |-> {}, calls |-> <<>>, gold |-> g]
  ELSE IF caps.run_targets
  THEN LET r == run_targets(targets, sv, g, fail)
       IN [raised |-> IF r.raised THEN "Exception" ELSE "none",
           entry |-> {"s2g.run_targets"}, calls |-> r.calls, gold |-> r.gold]
  ELSE [raised |-> "RuntimeError", entry |-> {}, calls |-> <<>>, gold |-> g]

\* gold table names in the order of Python's sorted()
SortedGold ==
  << "bridge_project_program", "bridge_project_status", "bridge_project_topic",
     "dim_country", "dim_organization", "dim_program", "dim_project",
     "dim_status", "dim_time", "dim_topic", "fact_funding" >>

\* sorted(targets)
sorted_targets(T) == SelectSeq(SortedGold, LAMBDA t : t \in T)

\* no summary: the entrypoint raised, or another operation ran
NoResult == [ok |-> FALSE, changed |-> {}, gold_synced |-> <<>>, error |-> ""]

\* run_subset that synchronizes the rebuilt targets with the store
run_subset_synced(caps, changed_files, br, sv, st, g, failB, failG) ==
  LET sources == normalize_changed_files(changed_files)
      bronze_changed_files ==
        [i \in 1..Len(changed_files) |-> bronze_path(changed_files[i])]
      b == IF sources # {}
           THEN run_bronze_to_silver(caps, sources, bronze_changed_files,
                                     br, sv, failB)
           ELSE [raised |-> "none", entry |-> {}, handlers |-> {},
                 silver |-> sv]
      targets == gold_targets_for_sources(sources)
      s == IF b.raised = "none" /\ targets # {}
           THEN run_silver_to_gold(caps, targets, b.silver, g, failG)
           ELSE [raised |-> "none", entry |-> {}, calls |-> <<>>, gold |-> g]
      raised == IF b.raised # "none" THEN b.raised ELSE s.raised
      synced == raised = "none" /\ targets # {}
  IN [raised |-> raised,
      entry |-> b.entry \cup s.entry
                \cup (IF synced THEN {"sync.run"} ELSE {}),
      handlers |-> b.handlers,
      calls |-> s.calls,
      silver |-> b.silver,
      gold |-> s.gold,
      store |-> IF synced THEN sync_run(targets, s.gold, st, 0).store ELSE st,
      result |-> IF raised # "none" THEN NoResult
                 ELSE [ok |-> TRUE,
                       changed |-> {basename(changed_files[i]) :
                                      i \in 1..Len(changed_files)},
                       gold_synced |-> sorted_targets(targets),
                       error |-> ""]]

\* run_subset(changed_files)
run_subset(caps, changed_files, br, sv, st, g, failB, failG) ==
  LET sources == normalize_changed_files(changed_files)
      bronze_changed_files ==
        [i \in 1..Len(changed_files) |-> bronze_path(changed_files[i])]
      b == IF sources # {}
           THEN run_bronze_to_silver(caps, sources, bronze_changed_files,
                                     br, sv, failB)
           ELSE [raised |-> "none", entry |-> {}, handlers |-> {},
                 silver |-> sv]
      targets == gold_targets_for_sources(sources)
      s == IF b.raised = "none" /\ targets # {}
           THEN run_silver_to_gold(caps, targets, b.silver, g, failG)
           ELSE [raised |-> "none", entry |-> {}, calls |-> <<>>, gold |-> g]
      raised == IF b.raised # "none" THEN b.raised ELSE s.raised
  IN [raised |-> raised,
      entry |-> b.entry \cup s.entry,
      handlers |-> b.handlers,
      calls |-> s.calls,
      silver |-> b.silver,
      gold |-> s.gold,
      store |-> st,
      result |-> IF raised # "none" THEN NoResult
                 ELSE [ok |-> TRUE,
                       changed |-> {basename(changed_files[i]) :
                                      i \in 1..Len(changed_files)},
                       gold_synced |-> sorted_targets(targets),
                       error |-> ""]]

\* run_full without the try/except around the synchronization
run_full_propagates(caps, br, sv, st, g, failB, failG, failS) ==
  LET b == run_bronze_to_silver(caps, {}, <<>>, br, sv, failB)
      s == IF b.raised = "none"
           THEN run_silver_to_gold(caps, {}, b.silver, g, failG)
           ELSE [raised |-> "none", entry |-> {}, calls |-> <<>>, gold |-> g]
      staged == b.raised = "none" /\ s.raised = "none"
      y == IF staged THEN sync_run({}, s.gold, st, failS)
           ELSE [raised |-> FALSE, store |-> st]
      raised == IF b.raised # "none" THEN b.raised
                ELSE IF s.raised # "none" THEN s.raised
                ELSE IF y.raised THEN "Exception" ELSE "none"
  IN [raised |-> raised,
      entry |-> b.entry \cup s.entry
                \cup (IF staged THEN {"sync.run"} ELSE {}),
      handlers |-> b.handlers,
      calls |-> s.calls,
      silver |-> b.silver,
      gold |-> s.gold,
      store |-> y.store,
      result |-> IF raised # "none" THEN NoResult
                 ELSE [ok |-> TRUE, changed |-> {}, gold_synced |-> <<>>,
                       error |-> ""]]

\* run_full(): the summary has ok and msg, or ok and error
run_full(caps, br, sv, st, g, failB, failG, failS) ==
  LET b == run_bronze_to_silver(caps, {}, <<>>, br, sv, failB)
      s == IF b.raised = "none"
           THEN run_silver_to_gold(caps, {}, b.silver, g, failG)
           ELSE [raised |-> "none", entry |-> {}, calls |-> <<>>, gold |-> g]
      staged == b.raised = "none" /\ s.raised = "none"
      y == IF staged THEN sync_run({}, s.gold, st, failS)
           ELSE [raised |-> FALSE, store |-> st]
      raised == IF b.raised # "none" THEN b.raised ELSE s.raised
  IN [raised |-> raised,
      entry |-> b.entry \cup s.entry
                \cup (IF staged THEN {"sync.run"} ELSE {}),
      handlers |-> b.handlers,
      calls |-> s.calls,
      silver |-> b.silver,
      gold |-> s.gold,
      store |-> y.store,
      result |-> IF raised # "none" THEN NoResult
                 ELSE [ok |-> ~y.raised, changed |-> {}, gold_synced |-> <<>>,
                       error |-> IF y.raised THEN "Error en sync_to_supabase"
                                 ELSE ""]]

\* ------------------------------------------------------------------ state
VARIABLES
  caps,        \* entrypoints the stage modules expose
  clock,       \* time of the last write to the bronze directory
  bronze,      \* file name -> mtime (= content version) of the raw CSV, 0 = absent
  silver,      \* silver snapshot -> content version, 0 = absent
  gold,        \* gold table -> content, <<>> = absent
  store,       \* relational store: table -> content, <<>> = absent
  opName,      \* the last operation executed
  opFiles,     \* its changed_files / sources argument
  opTargets,   \* its only / targets argument
  raised,      \* the exception it raised, "none" if it returned
  entryCalls,  \* stage entrypoints the orchestrator called in it
  b2sCalls,    \* file names whose bronze->silver handler it invoked
  goldCalls,   \* gold targets whose builder it invoked, in call order
  result,      \* the summary it returned
  opRepeat,    \* it had the name and arguments of the one before, which returned
  steps,       \* number of operations executed
  persisted,   \* Airflow Variable lake_bronze_mtimes: file name -> mtime
  xcomChanged, \* XCom "changed" of the running DAG run
  xcomMtimes,  \* XCom "mtimes" of the running DAG run
  pc,          \* next task of the running lakehouse_watch_any_file DAG run
  force,       \* dag_run.conf["force"] of the running DAG run
  cycles,      \* number of DAG runs finished
  failedChanged, \* change set of the last run_etl_subset if it raised
  failedNewer,   \* its files that the sensor found with a greater mtime
  projects,    \* rows of gold/dim_project.parquet by project id
  search,      \* rows of table project_search by project id
  batchSize,   \* environment variable EMBED_BATCH
  runNo,       \* number of indexing runs started
  needed,      \* ids that needed (re)computation when the last run started
  embedSent,   \* batches of ids the last run sent to the embedding service
  upserted,    \* ids the last run upserted
  indexed,     \* "indexed" of the summary the last run returned, -1 if none
  indexes,     \* names of the indexes existing in the relational store
  syncSummary, \* summary of the last sync_to_supabase.run
  syncLog,     \* statements of the last sync_to_supabase.run, in order
  unsavedChanged, \* change set of the last run_etl_subset whose Variable.set raised
  unsavedNewer,   \* its files that the sensor found with a greater mtime
  lateMods,    \* running: files written to bronze while run_etl_subset or
               \* index_to_typesense was due, since the last poke of the
               \* sensor; detected: the value of running at that poke
  rawRows,     \* raw CSV -> its rows, in file order
  silverRows,  \* silver snapshot -> its rows, <<>> = absent
  httpResp,    \* the last HTTP request served and the status of its response
  dagRuns,     \* number of lakehouse_full_run DAG runs the API triggered
  upload,      \* the file POST /raw is storing, and how far it is
  tmpFiles     \* temporary files in the bronze directory: name -> MB written

vars ==
  << caps, clock, bronze, silver, gold, store, opName, opFiles, opTargets,
     raised, entryCalls, b2sCalls, goldCalls, result, opRepeat, steps,
     persisted, xcomChanged, xcomMtimes, pc, force, cycles, failedChanged,
     failedNewer, projects, search, batchSize, runNo, needed, embedSent,
     upserted, indexed, indexes, syncSummary, syncLog, unsavedChanged,
     unsavedNewer, lateMods, rawRows, silverRows, httpResp, dagRuns,
     upload, tmpFiles >>

indexVars ==
  << projects, search, batchSize, runNo, needed, embedSent, upserted,
     indexed >>
syncVars == << indexes, syncSummary, syncLog >>
rowVars == << rawRows, silverRows >>
apiVars == << httpResp, dagRuns, upload, tmpFiles >>

dataVars == << bronze, silver, gold, store >>
watchVars ==
  << persisted, xcomChanged, xcomMtimes, pc, force, cycles, failedChanged,
     failedNewer, unsavedChanged, unsavedNewer >>

AllFiles == KnownFiles \cup {UnknownFile}

\* the files uploaded in the model
UploadFiles == {p.name : p \in InputPaths}

EmptyDict == [n \in {} |-> 0]

TargetSets ==
  {T \in SUBSET (GoldTables \cup {UnknownTarget}) : Cardinality(T) <= MaxTargets}

InitLake ==
  /\ clock = 0
  /\ bronze = [f \in AllFiles |-> 0]
  /\ silver = [t \in SilverTables |-> 0]
  /\ gold = [t \in GoldTables |-> <<>>]

InitOp ==
  /\ opName = "init"
  /\ opFiles = <<>>
  /\ opTargets = {}
  /\ raised = "none"
  /\ entryCalls = {}
  /\ b2sCalls = {}
  /\ goldCalls = <<>>
  /\ result = NoResult
  /\ opRepeat = FALSE
  /\ steps = 0

InitWatchIdle ==
  /\ persisted = EmptyDict
  /\ xcomChanged = <<>>
  /\ xcomMtimes = EmptyDict
  /\ pc = "sensor"
  /\ force = FALSE
  /\ cycles = 0
  /\ failedChanged = <<>>
  /\ failedNewer = {}
  /\ unsavedChanged = <<>>
  /\ unsavedNewer = {}
  /\ lateMods = [running |-> {}, detected |-> {}]

\* no row-level run of a handler yet
InitRowsIdle ==
  /\ rawRows = EmptyDict
  /\ silverRows = EmptyDict

\* no request served yet
InitApiIdle ==
  /\ httpResp = [route |-> "", cred |-> "none", status |-> 0]
  /\ dagRuns = 0
  /\ upload = [pc |-> "idle", target |-> "", size |-> 0, written |-> 0,
               tmp |-> 0, ok |-> TRUE, error |-> "", before |-> <<>>]
  /\ tmpFiles = EmptyDict

InitIndexIdle ==
  /\ search = EmptyDict
  /\ runNo = 0
  /\ needed = {}
  /\ embedSent = <<>>
  /\ upserted = {}
  /\ indexed = -1

InitSyncIdle ==
  /\ store = [t \in GoldTables |-> <<>>]
  /\ indexes = {}
  /\ syncSummary = <<>>
  /\ syncLog = <<>>

InitData ==
  /\ InitLake
  /\ InitOp
  /\ InitWatchIdle
  /\ InitIndexIdle
  /\ InitSyncIdle
  /\ InitRowsIdle
  /\ InitApiIdle
  /\ projects = EmptyDict
  /\ batchSize = MaxBatch

Init ==
  /\ caps \in ModuleCaps
  /\ InitData

\* the outcome r of an operation becomes the state
Record(name, files, targets, r) ==
  /\ opName' = name
  /\ opFiles' = files
  /\ opTargets' = targets
  /\ opRepeat' = (opName = name /\ opFiles = files /\ opTargets = targets
                   /\ raised = "none")
  /\ raised' = r.raised
  /\ entryCalls' = r.entry
  /\ b2sCalls' = r.handlers
  /\ goldCalls' = r.calls
  /\ result' = r.result
  /\ silver' = r.silver
  /\ gold' = r.gold
  /\ store' = r.store

\* the indexes, summary and statements a synchronization leaves
SyncOutcome(y) ==
  /\ indexes' = y.indexes
  /\ syncSummary' = y.summary
  /\ syncLog' = y.log

\* what an indexing run leaves
IndexOutcome(r) ==
  /\ search' = r.search
  /\ needed' = r.needed
  /\ embedSent' = r.sent
  /\ upserted' = r.upserted
  /\ indexed' = r.indexed
  /\ runNo' = runNo + 1

\* POST /raw stores one CSV in bronze (tmp file, then os.replace)
UploadFile(f, maxClock) ==
  /\ clock < maxClock
  /\ clock' = clock + 1
  /\ bronze' = [bronze EXCEPT ![f] = clock + 1]
  /\ opName' = "upload"
  /\ opFiles' = <<Bare(f)>>
  /\ opTargets' = {}
  /\ opRepeat' = FALSE
  /\ raised' = "none"
  /\ entryCalls' = {}
  /\ b2sCalls' = {}
  /\ goldCalls' = <<>>
  /\ result' = NoResult
  /\ UNCHANGED << caps, silver, gold, store >>
  /\ UNCHANGED watchVars
  /\ UNCHANGED << indexVars, syncVars >>
  /\ UNCHANGED << rowVars, apiVars >>

Upload(f) ==
  /\ UNCHANGED lateMods
  /\ steps < MaxSteps
  /\ steps' = steps + 1
  /\ UploadFile(f, MaxVer)

\* bronze_to_silver.run_files(changed_files) called directly
B2SRunFiles(S, fail) ==
  /\ steps < MaxSteps
  /\ caps = RepoCaps
  /\ fail <= Len(handlers_of(SortedList(S)))
  /\ \E r \in {run_files(SortedList(S), bronze, silver, fail)} :
       Record("b2s.run_files", SortedList(S), {},
               [raised |-> IF r.raised THEN "Exception" ELSE "none",
                entry |-> {}, handlers |-> r.handlers, calls |-> <<>>,
                result |-> NoResult, silver |-> r.silver, gold |-> gold,
                store |-> store])
  /\ steps' = steps + 1
  /\ UNCHANGED << caps, clock, bronze >>
  /\ UNCHANGED watchVars
  /\ UNCHANGED << indexVars, syncVars >>
  /\ UNCHANGED << lateMods, rowVars, apiVars >>

\* bronze_to_silver.run() called directly
B2SRun(fail) ==
  /\ steps < MaxSteps
  /\ caps = RepoCaps
  /\ \E r \in {b2s_run(bronze, silver, fail)} :
       Record("b2s.run", <<>>, {},
               [raised |-> IF r.raised THEN "Exception" ELSE "none",
                entry |-> {}, handlers |-> r.handlers, calls |-> <<>>,
                result |-> NoResult, silver |-> r.silver, gold |-> gold,
                store |-> store])
  /\ steps' = steps + 1
  /\ UNCHANGED << caps, clock, bronze >>
  /\ UNCHANGED watchVars
  /\ UNCHANGED << indexVars, syncVars >>
  /\ UNCHANGED << lateMods, rowVars, apiVars >>

GoldOutcome(r) ==
  [raised |-> IF r.raised THEN "Exception" ELSE "none",
   entry |-> {}, handlers |-> {}, calls |-> r.calls,
   result |-> NoResult, silver |-> silver, gold |-> r.gold, store |-> store]

\* silver_to_gold.run(only) called directly (only = {} is run())
S2GRun(only, fail) ==
  /\ steps < MaxSteps
  /\ caps = RepoCaps
  /\ fail <= Len(gold_plan(only))
  /\ \E r \in {GoldOutcome(s2g_run(only, silver, gold, fail))} :
       Record("s2g.run", <<>>, only, r)
  /\ steps' = steps + 1
  /\ UNCHANGED << caps, clock, bronze >>
  /\ UNCHANGED watchVars
  /\ UNCHANGED << indexVars, syncVars >>
  /\ UNCHANGED << lateMods, rowVars, apiVars >>

\* silver_to_gold.run_for_sources(sources) called directly
S2GRunForSources(S, fail) ==
  /\ steps < MaxSteps
  /\ caps = RepoCaps
  /\ fail <= Len(gold_plan(sources_gold_targets(S)))
  /\ \E r \in {GoldOutcome(run_for_sources(S, silver, gold, fail))} :
       Record("s2g.run_for_sources", SortedList(S), {}, r)
  /\ steps' = steps + 1
  /\ UNCHANGED << caps, clock, bronze >>
  /\ UNCHANGED watchVars
  /\ UNCHANGED << indexVars, syncVars >>
  /\ UNCHANGED << lateMods, rowVars, apiVars >>

\* orchestration.run_etl.run_subset(changed_files)
RunSubset(S, failB, failG) ==
  /\ steps < MaxSteps
  /\ \E r \in {run_subset(caps, SortedList(S), bronze, silver, store, gold,
                           failB, failG)} :
        /\ failB # 0 => r.raised = "Exception" /\ r.calls = <<>>
        /\ failG # 0 => r.raised = "Exception" /\ r.calls # <<>>
        /\ Record("run_subset", SortedList(S), {}, r)
  /\ steps' = steps + 1
  /\ UNCHANGED << caps, clock, bronze >>
  /\ UNCHANGED watchVars
  /\ UNCHANGED << indexVars, syncVars >>
  /\ UNCHANGED << lateMods, rowVars, apiVars >>

\* orchestration.run_etl.run_full()
RunFull(failB, failG, failS) ==
  /\ steps < MaxSteps
  /\ \E r \in {run_full(caps, bronze, silver, store, gold,
                         failB, failG, failS)} :
        /\ failB # 0 => r.raised = "Exception" /\ r.calls = <<>>
        /\ failG # 0 => r.raised = "Exception" /\ r.calls # <<>>
        /\ failS # 0 => "sync.run" \in r.entry
        /\ Record("run_full", <<>>, {}, r)
        /\ IF "sync.run" \in r.entry
           THEN \E w \in 1..MaxWidth :
                \E y \in {sync_statements({}, r.gold, store, indexes,
                                          failS, 0, w)} :
                  /\ w # 1 => \E i \in 1..Len(y.summary) :
                                y.summary[i].status = "OK"
                  /\ SyncOutcome(y)
           ELSE UNCHANGED syncVars
  /\ steps' = steps + 1
  /\ UNCHANGED << caps, clock, bronze >>
  /\ UNCHANGED watchVars
  /\ UNCHANGED indexVars
  /\ UNCHANGED << lateMods, rowVars, apiVars >>

Fails == 0..MaxFail

Next ==
  \/ \E f \in UploadFiles : Upload(f)
  \/ \E S \in ChangeSets, fail \in Fails : B2SRunFiles(S, fail)
  \/ \E fail \in Fails : B2SRun(fail)
  \/ \E T \in TargetSets, fail \in Fails : S2GRun(T, fail)
  \/ \E S \in ChangeSets, fail \in Fails : S2GRunForSources(S, fail)
  \/ \E S \in ChangeSets, fb \in Fails, fg \in Fails : RunSubset(S, fb, fg)
  \/ \E fb \in Fails, fg \in Fails, fs \in Fails : RunFull(fb, fg, fs)

Spec == Init /\ [][Next]_vars

Names(files) == {basename(files[i]).name : i \in 1..Len(files)}

\* ------------------------------------- dags/lakehouse_watch_any_file.py
\* file names of the bronze directory in the order of Python's sorted()
SortedNames ==
  << "euroSciVoc.csv", "legalBasis.csv", "notes.csv", "organization.csv",
     "policyPriorities.csv", "project.csv", "topics.csv", "webItem.csv",
     "webLink.csv" >>

\* list_bronze_csvs + _current_mtimes: name -> st_mtime of the present CSVs
current_mtimes(br) ==
  [f \in {n \in DOMAIN br : br[n] # 0} |-> br[f]]

\* prev.get(name, 0.0)
prev_get(prev, name) == IF name \in DOMAIN prev THEN prev[name] ELSE 0

\* detect_changed with m >= prev instead of m > prev
detect_changed_ge(curr, prev, frc) ==
  IF frc
  THEN SelectSeq(SortedNames, LAMBDA n : n \in DOMAIN curr)
  ELSE SelectSeq(SortedNames,
                 LAMBDA n : n \in DOMAIN curr /\ curr[n] >= prev_get(prev, n))

\* the changed list of wait_for_bronze_updates
detect_changed(curr, prev, frc) ==
  IF frc
  THEN SelectSeq(SortedNames, LAMBDA n : n \in DOMAIN curr)
  ELSE SelectSeq(SortedNames,
                 LAMBDA n : n \in DOMAIN curr /\ curr[n] > prev_get(prev, n))

NameList(names) == [i \in 1..Len(names) |-> Bare(names[i])]

\* next_persisted with Variable.set in a finally block: also written when
\* run_subset raised
next_persisted_always(subsetRaised, mtimes, prev, setFails) ==
  IF DOMAIN mtimes # {} /\ ~setFails THEN mtimes ELSE prev

\* next_persisted where the mapping is stored although Variable.set raised
next_persisted_despite_failure(subsetRaised, mtimes, prev, setFails) ==
  IF subsetRaised THEN prev
  ELSE IF DOMAIN mtimes # {} THEN mtimes ELSE prev

\* next_persisted writing the mtimes of bronze at the end of the run
\* instead of the snapshot of the detection
next_persisted_current(subsetRaised, mtimes, prev, setFails) ==
  IF subsetRaised THEN prev
  ELSE IF DOMAIN mtimes # {} /\ ~setFails THEN current_mtimes(bronze) ELSE prev

\* the Variable lake_bronze_mtimes after run_etl_subset: written only when
\* run_subset returned, mtimes is not empty and Variable.set succeeds
next_persisted(subsetRaised, mtimes, prev, setFails) ==
  IF subsetRaised THEN prev
  ELSE IF DOMAIN mtimes # {} /\ ~setFails THEN mtimes ELSE prev

\* the files uploaded while the watch DAG runs
WatchFiles == {"organization.csv", "project.csv", "notes.csv"}

InitWatch ==
  /\ caps = RepoCaps
  /\ InitData

WatchUpload(f) ==
  /\ UNCHANGED steps
  /\ lateMods' = IF pc \in {"etl", "index"}
                 THEN [lateMods EXCEPT !.running = @ \cup {f}]
                 ELSE lateMods
  /\ UploadFile(f, MaxMtime)

\* sensor task wait_for_bronze_updates: one poke
Sensor ==
  /\ pc = "sensor"
  /\ cycles < MaxCycles
  /\ LET curr    == current_mtimes(bronze)
         changed == detect_changed(curr, persisted, force)
     IN /\ xcomChanged' = NameList(changed)
        /\ xcomMtimes' = curr
        /\ pc' = IF force \/ changed # <<>> THEN "etl" ELSE "sensor"
        /\ opFiles' = NameList(changed)
  /\ opName' = "wait_for_bronze_updates"
  /\ opTargets' = {}
  /\ opRepeat' = FALSE
  /\ raised' = "none"
  /\ entryCalls' = {}
  /\ b2sCalls' = {}
  /\ goldCalls' = <<>>
  /\ result' = NoResult
  /\ UNCHANGED << caps, clock, steps, persisted, force, cycles,
                  failedChanged, failedNewer >>
  /\ UNCHANGED dataVars
  /\ UNCHANGED << indexVars, syncVars >>
  /\ lateMods' = [running |-> {}, detected |-> lateMods.running]
  /\ UNCHANGED << unsavedChanged, unsavedNewer, rowVars, apiVars >>

\* task run_etl_subset; setFails: Variable.set raises.  A task that raises
\* fails the DAG run (retries = 0) and the next run starts.
EtlSubset(failB, failG, setFails) ==
  /\ pc = "etl"
  /\ \E changed \in {IF force /\ xcomChanged = <<>>
                      THEN NameList(SelectSeq(SortedNames,
                                              LAMBDA n : bronze[n] # 0))
                      ELSE xcomChanged} :
     \E r \in {run_subset(caps, changed, bronze, silver, store, gold,
                          failB, failG)} :
        /\ failB # 0 => r.raised = "Exception" /\ r.calls = <<>>
        /\ failG # 0 => r.raised = "Exception" /\ r.calls # <<>>
        /\ Record("run_etl_subset", changed, {}, r)
        /\ IF r.raised # "none"
           THEN /\ ~setFails
                /\ persisted' = next_persisted(TRUE, xcomMtimes, persisted,
                                               setFails)
                /\ pc' = "sensor"
                /\ cycles' = cycles + 1
                /\ force' \in BOOLEAN
                /\ xcomChanged' = <<>>
                /\ xcomMtimes' = EmptyDict
                /\ failedChanged' = changed
                /\ failedNewer' =
                     {n \in Names(changed) :
                        /\ n \in DOMAIN xcomMtimes
                        /\ xcomMtimes[n] > prev_get(persisted, n)}
                /\ unsavedChanged' = <<>>
                /\ unsavedNewer' = {}
           ELSE /\ setFails => DOMAIN xcomMtimes # {}
                /\ persisted' = next_persisted(FALSE, xcomMtimes, persisted,
                                               setFails)
                /\ pc' = "index"
                /\ failedChanged' = <<>>
                /\ failedNewer' = {}
                /\ unsavedChanged' = IF setFails THEN changed ELSE <<>>
                /\ unsavedNewer' =
                     IF setFails
                     THEN {n \in Names(changed) :
                             /\ n \in DOMAIN xcomMtimes
                             /\ xcomMtimes[n] > prev_get(persisted, n)}
                     ELSE {}
                /\ UNCHANGED << cycles, force, xcomChanged, xcomMtimes >>
  /\ UNCHANGED << caps, clock, bronze, steps >>
  /\ UNCHANGED << indexVars, syncVars >>
  /\ UNCHANGED << lateMods, rowVars, apiVars >>

\* task index_to_typesense: main() raises at pd.read_parquet without a
\* dim_project snapshot; then the DAG run ends and the next one starts
\* (schedule @continuous, max_active_runs = 1) with its own conf and XComs
IndexTask ==
  /\ pc = "index"
  /\ pc' = "sensor"
  /\ cycles' = cycles + 1
  /\ force' \in BOOLEAN
  /\ xcomChanged' = <<>>
  /\ xcomMtimes' = EmptyDict
  /\ opName' = "index_to_typesense"
  /\ opFiles' = <<>>
  /\ opTargets' = {}
  /\ opRepeat' = FALSE
  /\ entryCalls' = {}
  /\ b2sCalls' = {}
  /\ goldCalls' = <<>>
  /\ result' = NoResult
  /\ IF gold["dim_project"] = <<>>
     THEN /\ raised' = "FileNotFoundError"
          /\ UNCHANGED << search, runNo, needed, embedSent, upserted, indexed >>
     ELSE /\ raised' = "none"
          /\ IndexOutcome(index_main(projects, search, batchSize, NoFault,
                                    runNo + 1))
  /\ UNCHANGED << caps, clock, steps, persisted, failedChanged, failedNewer >>
  /\ UNCHANGED dataVars
  /\ UNCHANGED << projects, batchSize, syncVars >>
  /\ UNCHANGED << unsavedChanged, unsavedNewer, lateMods, rowVars, apiVars >>

NextWatch ==
  \/ \E f \in WatchFiles : WatchUpload(f)
  \/ Sensor
  \/ \E fb \in Fails, fg \in Fails, sf \in BOOLEAN : EtlSubset(fb, fg, sf)
  \/ IndexTask

SpecWatch == InitWatch /\ [][NextWatch]_vars

\* ------------------------------------------- sync_to_supabase.run on a lake
MaxSyncSteps == 2
MaxIdxFail == 1

\* the lake after the files of S were uploaded and both stages ran in full
lake_after_etl(S) ==
  LET br == [f \in AllFiles |-> IF f \in S THEN 1 ELSE 0]
      sv == b2s_run(br, [t \in SilverTables |-> 0], 0).silver
  IN [bronze |-> br, silver |-> sv,
      gold |-> s2g_run({}, sv, [t \in GoldTables |-> <<>>], 0).gold]

SyncLakeFiles ==
  {"project.csv", "organization.csv", "topics.csv", "legalBasis.csv"}

SyncLakes == {lake_after_etl(S) : S \in SUBSET SyncLakeFiles}

\* the only arguments of run
SyncOnly ==
  { {}, {"dim_project"}, {"dim_time", "dim_project"},
    {"fact_funding", "dim_organization", "dim_topic"}, {UnknownTarget} }

\* the store is a service of its own: empty, or holding the tables a run
\* loaded from an earlier lake
SyncStores ==
  {[t \in GoldTables |-> <<>>],
   sync_run({}, lake_after_etl(SyncLakeFiles).gold,
            [t \in GoldTables |-> <<>>], 0).store}

InitSync ==
  /\ caps = RepoCaps
  /\ clock = 1
  /\ \E l \in SyncLakes :
       /\ bronze = l.bronze
       /\ silver = l.silver
       /\ gold = l.gold
  /\ store \in SyncStores
  /\ indexes = {}
  /\ syncSummary = <<>>
  /\ syncLog = <<>>
  /\ InitOp
  /\ InitWatchIdle
  /\ InitIndexIdle
  /\ InitRowsIdle
  /\ InitApiIdle
  /\ projects = EmptyDict
  /\ batchSize = MaxBatch

\* sync_to_supabase.run(only); fail = k: reading or loading the k-th
\* selected table, whose snapshot exists, raises; idxFail = i: the store
\* refuses the i-th index; w: the width of the snapshots
SyncRun(only, fail, idxFail, w) ==
  /\ steps < MaxSyncSteps
  /\ fail <= Len(selected_tables(only))
  /\ fail # 0 => gold[selected_tables(only)[fail]] # <<>>
  /\ fail # 0 => idxFail = 0 /\ w = 1
  /\ \E y \in {sync_statements(only, gold, store, indexes, fail, idxFail, w)} :
       /\ w # 1 => \E i \in 1..Len(y.summary) : y.summary[i].status = "OK"
       /\ store' = y.store
       /\ raised' = IF y.raised THEN "Exception" ELSE "none"
       /\ SyncOutcome(y)
  /\ opName' = "sync.run"
  /\ opFiles' = <<>>
  /\ opTargets' = only
  /\ opRepeat' = FALSE
  /\ entryCalls' = {}
  /\ b2sCalls' = {}
  /\ goldCalls' = <<>>
  /\ result' = NoResult
  /\ steps' = steps + 1
  /\ UNCHANGED << caps, clock, bronze, silver, gold >>
  /\ UNCHANGED watchVars
  /\ UNCHANGED indexVars
  /\ UNCHANGED << lateMods, rowVars, apiVars >>

NextSync ==
  \E only \in SyncOnly, fail \in 0..MaxSyncFail, idxFail \in 0..MaxIdxFail,
     w \in 1..MaxWidth : SyncRun(only, fail, idxFail, w)

SpecSync == InitSync /\ [][NextSync]_vars

\* ------------------------------------ index_projects_typesense.main on a lake
MaxIdxSteps == 3

InitIndex ==
  /\ caps = RepoCaps
  /\ clock = 1
  /\ \E l \in {lake_after_etl({"project.csv"})} :
       /\ bronze = l.bronze
       /\ silver = l.silver
       /\ gold = l.gold
  /\ InitOp
  /\ InitWatchIdle
  /\ InitIndexIdle
  /\ InitSyncIdle
  /\ InitRowsIdle
  /\ InitApiIdle
  /\ projects \in {[id \in S |-> BaseRow] : S \in SUBSET Ids}
  /\ batchSize \in 1..MaxBatch

\* dim_project.parquet rewritten by its builder
SnapshotStep(pr) ==
  /\ steps < MaxIdxSteps
  /\ steps' = steps + 1
  /\ projects' = pr
  /\ opName' = "build_dim_project"
  /\ opFiles' = <<>>
  /\ opTargets' = {}
  /\ opRepeat' = FALSE
  /\ raised' = "none"
  /\ entryCalls' = {}
  /\ b2sCalls' = {}
  /\ goldCalls' = <<>>
  /\ result' = NoResult
  /\ UNCHANGED << caps, clock, batchSize, search, runNo, needed, embedSent,
                  upserted, indexed >>
  /\ UNCHANGED dataVars
  /\ UNCHANGED watchVars
  /\ UNCHANGED syncVars
  /\ UNCHANGED << lateMods, rowVars, apiVars >>

\* ... with one field of one project changed
EditField(id, f, v) ==
  /\ id \in DOMAIN projects
  /\ projects[id][f] # v
  /\ SnapshotStep([projects EXCEPT ![id][f] = v])

\* ... with one project less
DropRow(id) ==
  /\ id \in DOMAIN projects
  /\ SnapshotStep([i \in DOMAIN projects \ {id} |-> projects[i]])

\* ... with one project more
AddRow(id) ==
  /\ id \notin DOMAIN projects
  /\ SnapshotStep([i \in DOMAIN projects \cup {id} |->
                    IF i = id THEN BaseRow ELSE projects[i]])

\* main() on an existing dim_project snapshot; fault: the one call of the
\* embedding service that does not answer with one vector per input, and
\* how
IndexRun(fault) ==
  /\ steps < MaxIdxSteps
  /\ gold["dim_project"] # <<>>
  /\ steps' = steps + 1
  /\ fault.batch <= num_chunks(to_compute(projects, search), batchSize)
  /\ fault.kind = "drop_last" =>
       Len(chunk(to_compute(projects, search), batchSize, fault.batch)) > 1
  /\ \E r \in {index_main(projects, search, batchSize, fault, runNo + 1)} :
       /\ IndexOutcome(r)
       /\ raised' = IF r.raised THEN "HTTPStatusError" ELSE "none"
  /\ opName' = "index.main"
  /\ opFiles' = <<>>
  /\ opTargets' = {}
  /\ opRepeat' = FALSE
  /\ entryCalls' = {}
  /\ b2sCalls' = {}
  /\ goldCalls' = <<>>
  /\ result' = NoResult
  /\ UNCHANGED << caps, clock, projects, batchSize >>
  /\ UNCHANGED dataVars
  /\ UNCHANGED watchVars
  /\ UNCHANGED syncVars
  /\ UNCHANGED << lateMods, rowVars, apiVars >>

FaultSet ==
  {NoFault} \cup [batch : 1..MaxIds, kind : Faults]

NextIndex ==
  \/ \E id \in Ids : \E v \in Titles : EditField(id, "title", v)
  \/ \E id \in Ids : \E v \in Abstracts : EditField(id, "abstract", v)
  \/ \E id \in Ids : \E v \in Countries : EditField(id, "country", v)
  \/ \E id \in Ids : \E v \in Years : EditField(id, "year", v)
  \/ \E id \in Ids : DropRow(id)
  \/ \E id \in Ids : AddRow(id)
  \/ \E fault \in FaultSet : IndexRun(fault)

SpecIndex == InitIndex /\ [][NextIndex]_vars

\* ------------------------------------ bronze_to_silver handlers on the rows
MaxRowSteps == 2

\* one raw file holds rows, no handler has run
InitSilver ==
  /\ caps = RepoCaps
  /\ InitLake
  /\ InitOp
  /\ InitWatchIdle
  /\ InitIndexIdle
  /\ InitSyncIdle
  /\ InitApiIdle
  /\ projects = EmptyDict
  /\ batchSize = MaxBatch
  /\ \E f \in RowFiles : \E df \in RawFrames(f) :
       rawRows = [g \in RowFiles |-> IF g = f THEN df ELSE <<>>]
  /\ silverRows = [t \in RowSnapshots |-> <<>>]

\* bronze_to_silver.run_files({f}): the handler registered for f
RunFilesRows(f) ==
  /\ steps < MaxRowSteps
  /\ steps' = steps + 1
  /\ silverRows' = run_handler_rows(f, rawRows, silverRows)
  /\ opName' = "b2s.run_files"
  /\ opFiles' = <<Bare(f)>>
  /\ opTargets' = {}
  /\ opRepeat' = FALSE
  /\ raised' = "none"
  /\ entryCalls' = {}
  /\ b2sCalls' = {f}
  /\ goldCalls' = <<>>
  /\ result' = NoResult
  /\ UNCHANGED << caps, clock, rawRows, lateMods >>
  /\ UNCHANGED dataVars
  /\ UNCHANGED watchVars
  /\ UNCHANGED << indexVars, syncVars, apiVars >>

NextSilver == \E f \in RowFiles : RunFilesRows(f)

SpecSilver == InitSilver /\ [][NextSilver]_vars

\* --------------------------- the gold stage and the orchestrator on a lake
MaxRunSteps == 2

\* the lake after uploads and a full run of both stages, or before the
\* gold stage ran; the store empty or loaded from an earlier lake
InitRuns ==
  /\ caps = RepoCaps
  /\ clock = 1
  /\ \E l \in SyncLakes :
       /\ bronze = l.bronze
       /\ silver = l.silver
       /\ gold \in {[t \in GoldTables |-> <<>>], l.gold}
  /\ store \in SyncStores
  /\ indexes = {}
  /\ syncSummary = <<>>
  /\ syncLog = <<>>
  /\ InitOp
  /\ InitWatchIdle
  /\ InitIndexIdle
  /\ InitRowsIdle
  /\ InitApiIdle
  /\ projects = EmptyDict
  /\ batchSize = MaxBatch

\* silver_to_gold.run(only=T), first or executed again with the same T
LakeS2GRun(T, fail) ==
  /\ steps < MaxRunSteps
  /\ steps = 0 \/ (opName = "s2g.run" /\ opTargets = T)
  /\ S2GRun(T, fail)

\* silver_to_gold.run_for_sources(S), first or executed again with the same S
LakeS2GRunForSources(S, fail) ==
  /\ steps < MaxRunSteps
  /\ steps = 0 \/ (opName = "s2g.run_for_sources" /\ opFiles = SortedList(S))
  /\ S2GRunForSources(S, fail)

NextGold ==
  \/ \E T \in TargetSets, fail \in Fails : LakeS2GRun(T, fail)
  \/ \E S \in ChangeSets, fail \in Fails : LakeS2GRunForSources(S, fail)

SpecGold == InitRuns /\ [][NextGold]_vars

MaxOrchSteps == 1

\* the entrypoints of the orchestrator, called on a lake of InitRuns
LakeRunSubset(S, failB, failG) ==
  /\ steps < MaxOrchSteps
  /\ RunSubset(S, failB, failG)

LakeRunFull(failB, failG, failS) ==
  /\ steps < MaxOrchSteps
  /\ RunFull(failB, failG, failS)

NextOrch ==
  \/ \E S \in ChangeSets, fb \in Fails, fg \in Fails : LakeRunSubset(S, fb, fg)
  \/ \E fb \in Fails, fg \in Fails, fs \in Fails : LakeRunFull(fb, fg, fs)

SpecOrch == InitRuns /\ [][NextOrch]_vars

\* ------------------------------------------------ the requests of the API
InitApi ==
  /\ caps = RepoCaps
  /\ InitData

\* the op record is the one of the ETL: a request leaves it
ApiFrame ==
  /\ UNCHANGED << caps, silver, gold, store, opName, opFiles, opTargets,
                  raised, entryCalls, b2sCalls, goldCalls, result, opRepeat >>
  /\ UNCHANGED watchVars
  /\ UNCHANGED << indexVars, syncVars, rowVars >>

\* the upload ended without storing the file: its entry of results has
\* ok = false and the error
UploadRejected(error, before) ==
  [pc |-> "idle", target |-> upload.target, size |-> upload.size,
   written |-> upload.written, tmp |-> upload.tmp, ok |-> FALSE,
   error |-> error, before |-> before]

\* POST /seed
SeedRequest(cred, configured, airflow, follow) ==
  /\ upload.pc = "idle"
  /\ steps < MaxRequests
  /\ steps' = steps + 1
  /\ \E r \in {post_seed(cred, configured, airflow, follow)} :
       /\ httpResp' = [route |-> "POST /seed", cred |-> cred,
                       status |-> r.status]
       /\ dagRuns' = IF r.triggered THEN dagRuns + 1 ELSE dagRuns
  /\ UNCHANGED << clock, bronze, lateMods, upload, tmpFiles >>
  /\ ApiFrame

\* POST /raw with one file of size MB, up to the creation of the temporary
\* file: the dependencies of the route, _secure_csv_name, NamedTemporaryFile
UploadStart(p, size, cred, configured) ==
  /\ upload.pc = "idle"
  /\ steps < MaxRequests
  /\ steps' = steps + 1
  /\ IF auth_status("POST /raw", cred, configured) # 0
     THEN /\ httpResp' = [route |-> "POST /raw", cred |-> cred,
                          status |-> auth_status("POST /raw", cred, configured)]
          /\ upload' = UploadRejected("auth", <<bronze, tmpFiles>>)
          /\ UNCHANGED tmpFiles
     ELSE IF secure_csv_name(p) = ""
     THEN /\ httpResp' = [route |-> "POST /raw", cred |-> cred, status |-> 200]
          /\ upload' = UploadRejected("422", <<bronze, tmpFiles>>)
          /\ UNCHANGED tmpFiles
     ELSE /\ httpResp' = [route |-> "POST /raw", cred |-> cred, status |-> 0]
          /\ tmpFiles' = [n \in DOMAIN tmpFiles \cup {new_tmp_name(tmpFiles)} |->
                            IF n \in DOMAIN tmpFiles THEN tmpFiles[n] ELSE 0]
          /\ upload' = [pc |-> "writing", target |-> secure_csv_name(p),
                        size |-> size, written |-> 0,
                        tmp |-> new_tmp_name(tmpFiles), ok |-> TRUE,
                        error |-> "", before |-> <<bronze, tmpFiles>>]
  /\ UNCHANGED << clock, bronze, lateMods, dagRuns >>
  /\ ApiFrame

\* one pass of the loop "while True" that reads a chunk: over the limit
\* HTTPException(413), else tmp.write(chunk), which raises when wfail.
\* Both leave the with block with tmp_path still None: the except blocks
\* unlink nothing
UploadChunk(wfail) ==
  /\ upload.pc = "writing"
  /\ upload.written < upload.size
  /\ wfail => upload.written + 1 <= MAX_MB
  /\ IF upload.written + 1 > MAX_MB
     THEN /\ upload' = UploadRejected("413", upload.before)
          /\ httpResp' = [httpResp EXCEPT !.status = 200]
          /\ UNCHANGED tmpFiles
     ELSE IF wfail
     THEN /\ upload' = UploadRejected("OSError", upload.before)
          /\ httpResp' = [httpResp EXCEPT !.status = 200]
          /\ UNCHANGED tmpFiles
     ELSE /\ upload' = [upload EXCEPT !.written = upload.written + 1]
          /\ tmpFiles' = [tmpFiles EXCEPT ![upload.tmp] = upload.written + 1]
          /\ UNCHANGED httpResp
  /\ UNCHANGED << clock, bronze, lateMods, dagRuns, steps >>
  /\ ApiFrame

\* end of file: flush, fsync, tmp_path = tmp.name, os.replace(tmp_path, dest).
\* fail = "fsync": raised before tmp_path is set; fail = "replace":
\* os.replace raises and the except block unlinks tmp_path
UploadCommit(fail) ==
  /\ upload.pc = "writing"
  /\ upload.written = upload.size
  /\ httpResp' = [httpResp EXCEPT !.status = 200]
  /\ CASE fail = "fsync" ->
            /\ upload' = UploadRejected("OSError", upload.before)
            /\ UNCHANGED << tmpFiles, clock, bronze, lateMods >>
       [] fail = "replace" ->
            /\ upload' = UploadRejected("OSError", upload.before)
            /\ tmpFiles' = [n \in DOMAIN tmpFiles \ {upload.tmp} |-> tmpFiles[n]]
            /\ UNCHANGED << clock, bronze, lateMods >>
       [] OTHER ->
            /\ upload' = [upload EXCEPT !.pc = "idle"]
            /\ tmpFiles' = [n \in DOMAIN tmpFiles \ {upload.tmp} |-> tmpFiles[n]]
            /\ clock' = clock + 1
            /\ bronze' = [bronze EXCEPT ![upload.target] = clock + 1]
            /\ UNCHANGED lateMods
  /\ UNCHANGED << dagRuns, steps >>
  /\ ApiFrame

NextApi ==
  \/ \E cred \in Credentials, configured \in BOOLEAN,
        airflow \in AirflowAnswers, follow \in BOOLEAN :
       SeedRequest(cred, configured, airflow, follow)
  \/ \E p \in UploadNames, size \in 0..(MAX_MB + 1),
        cred \in Credentials, configured \in BOOLEAN :
       UploadStart(p, size, cred, configured)
  \/ \E wfail \in BOOLEAN : UploadChunk(wfail)
  \/ \E fail \in {"none", "fsync", "replace"} : UploadCommit(fail)

SpecApi == InitApi /\ [][NextApi]_vars

\* ----------------------------------------------------------------- claims
CalledBuilders(calls) == {TABLE_BUILDERS[calls[i]] : i \in 1..Len(calls)}

WrittenBy(calls) == UNION {BuilderWrites(b) : b \in CalledBuilders(calls)}

Pos(t) == CHOOSE i \in 1..Len(order) : order[i] = t

\* C1: a run_full that returns has run the handler of every dataset of
\* FILE_TO_FUNC, then every gold builder, then the store synchronization.
C1_RunFullRunsEveryStage ==
  (opName = "run_full" /\ caps = RepoCaps /\ raised = "none") =>
    /\ b2sCalls = KnownFiles
    /\ Range(goldCalls) = GoldTables
    /\ "sync.run" \in entryCalls

\* C2: run_subset invokes the bronze->silver handler of a dataset if and
\* only if the basename of its raw file is in the change set.
C2_SubsetRunsHandlersOfChangedFiles ==
  (opName = "run_subset" /\ caps = RepoCaps /\ raised = "none") =>
    b2sCalls = Names(opFiles) \cap KnownFiles

\* C3: when the stage module has no partial entrypoint run_subset raises
\* RuntimeError without invoking a handler or a builder of that stage, and
\* no path of run_subset executes a full bronze run or a full gold run:
\* every handler and builder it invokes belongs to the change set and to
\* its gold targets.
C3_NoFullRunFallback ==
  LET sources == normalize_changed_files(opFiles)
      targets == gold_targets_for_sources(sources)
      noBronzePartial == ~caps.run_files /\ ~(caps.run /\ caps.run_only)
  IN /\ (opName = "run_subset" /\ sources # {} /\ noBronzePartial) =>
          (raised = "RuntimeError" /\ b2sCalls = {} /\ goldCalls = <<>>)
     /\ (opName = "run_subset" /\ targets # {} /\ ~caps.run_targets) =>
          (raised # "none" /\ goldCalls = <<>>)
     /\ (opName = "run_subset" /\ targets # {} /\ ~caps.run_targets
           /\ ~noBronzePartial /\ b2sCalls = {}) =>
          raised = "RuntimeError"
     /\ opName = "run_subset" =>
          (b2sCalls \subseteq Names(opFiles) /\ Range(goldCalls) \subseteq targets)
     /\ opName = "run_subset" =>
          (b2sCalls # KnownFiles /\ Range(goldCalls) # GoldTables)

C3_Witness ==
  /\ opName = "run_subset"
  /\ ~caps.run_targets
  /\ entryCalls = {"b2s.run_files"}
  /\ gold_targets_for_sources(normalize_changed_files(opFiles)) # {}
  /\ raised = "RuntimeError"

NamePos(n) == CHOOSE i \in 1..Len(SortedNames) : SortedNames[i] = n

\* C4: without force the detector returns the sorted names of the present
\* CSV files whose mtime is greater than the persisted one (no persisted
\* entry counts as changed, an equal mtime does not); with force, the
\* sorted names of all present files.
C4_DetectorReportsChanged ==
  opName = "wait_for_bronze_updates" =>
    LET present == {n \in AllFiles : bronze[n] # 0}
        newer   == {n \in present :
                      n \notin DOMAIN persisted \/ bronze[n] > persisted[n]}
    IN /\ Names(xcomChanged) = IF force THEN present ELSE newer
       /\ \A i \in 1..Len(xcomChanged) : xcomChanged[i].dir = ""
       /\ \A i, j \in 1..Len(xcomChanged) :
            i < j => NamePos(xcomChanged[i].name) < NamePos(xcomChanged[j].name)

\* previous {a: 1, b: 2}, current {a: 1, b: 3, c: 4} gives [c, b] sorted
C4_Witness ==
  /\ opName = "wait_for_bronze_updates"
  /\ ~force
  /\ DOMAIN persisted = {"organization.csv", "project.csv"}
  /\ persisted["organization.csv"] = bronze["organization.csv"]
  /\ persisted["project.csv"] < bronze["project.csv"]
  /\ bronze["notes.csv"] # 0
  /\ xcomChanged = <<Bare("notes.csv"), Bare("project.csv")>>

C4_WitnessForced ==
  /\ opName = "wait_for_bronze_updates"
  /\ force
  /\ DOMAIN persisted = {"organization.csv", "project.csv"}
  /\ persisted["organization.csv"] = bronze["organization.csv"]
  /\ xcomChanged = <<Bare("notes.csv"), Bare("organization.csv"),
                     Bare("project.csv")>>

PersistedWrittenAfterSubset ==
  /\ [][persisted' # persisted =>
          /\ opName' = "run_etl_subset"
          /\ raised' = "none"
          /\ pc = "etl"
          /\ persisted' = xcomMtimes
          /\ opFiles' = xcomChanged \/ (force /\ xcomChanged = <<>>)]_vars
  /\ [][(opName' = "run_etl_subset" /\ raised' # "none" /\ pc = "etl") =>
          persisted' = persisted]_vars

C6_SubsetTouchesOnlyMappedTargets ==
  [][(opName' = "run_subset" /\ caps = RepoCaps) =>
       LET targets == gold_targets_for_sources(normalize_changed_files(opFiles'))
       IN /\ Range(goldCalls') \subseteq targets
          /\ \A t \in GoldTables \ targets : gold'[t] = gold[t]]_vars

\* C7: in every gold run the builders are invoked in the fixed order, and
\* no builder that reads a gold table is invoked before a builder that
\* writes that table.
C7_BuildersInDependencyOrder ==
  \A i, j \in 1..Len(goldCalls) :
    i < j =>
      /\ Pos(goldCalls[i]) < Pos(goldCalls[j])
      /\ BuilderReadsGold(TABLE_BUILDERS[goldCalls[i]])
           \cap BuilderWrites(TABLE_BUILDERS[goldCalls[j]]) = {}

C7_Witness ==
  /\ opName = "s2g.run"
  /\ opTargets = {"fact_funding", "dim_organization"}
  /\ goldCalls = <<"dim_organization", "fact_funding">>
  /\ gold["fact_funding"] # <<>>

\* C8: run(only=T) and run_targets(T) with T non-empty invoke only the
\* builders registered for the names of T (unknown names are ignored, an
\* unselected dependency is not rebuilt) and leave unchanged every gold
\* table that no invoked builder writes.
C8_SelectiveRunFrame ==
  [][LET T == IF opName' = "s2g.run" THEN opTargets'
              ELSE gold_targets_for_sources(normalize_changed_files(opFiles'))
     IN ( /\ T # {}
          /\ \/ opName' = "s2g.run"
             \/ opName' = "run_subset" /\ "s2g.run_targets" \in entryCalls' )
        => /\ Range(goldCalls') \subseteq T \cap DOMAIN TABLE_BUILDERS
           /\ \A t \in GoldTables \ WrittenBy(goldCalls') : gold'[t] = gold[t]]_vars

C8_Witness ==
  /\ opName = "s2g.run"
  /\ opTargets = {"fact_funding", UnknownTarget}
  /\ goldCalls = <<"fact_funding">>
  /\ silver["organizations_project"] # 0
  /\ gold["dim_organization"] = <<>>

\* C9: run_for_sources(S) executes only the builders of the gold tables
\* SOURCE_TO_GOLD lists for the sources of S; none when there is no such
\* table.
C9_RunForSourcesOnlyMapped ==
  opName = "s2g.run_for_sources" =>
    Range(goldCalls) \subseteq sources_gold_targets(Range(opFiles))

\* C10: run_subset on a change set without a known dataset file invokes no
\* handler and no builder, does not raise, and returns ok = true with an
\* empty gold target list.
C10_NothingToDoIsSuccess ==
  (opName = "run_subset" /\ Names(opFiles) \cap KnownFiles = {}) =>
    /\ raised = "none"
    /\ b2sCalls = {}
    /\ goldCalls = <<>>
    /\ entryCalls = {}
    /\ result.ok
    /\ result.gold_synced = <<>>

C10_Witness ==
  /\ opName = "run_subset"
  /\ opFiles = <<Bare(UnknownFile)>>
  /\ bronze[UnknownFile] # 0
  /\ result = [ok |-> TRUE, changed |-> {Bare(UnknownFile)},
               gold_synced |-> <<>>, error |-> ""]

\* ------------------------------------------------------ the indexer's claims
IndexStep == opName' = "index.main" /\ steps' # steps

SentIds(sent) == UNION {Range(sent[i].ids) : i \in 1..Len(sent)}

\* ids of the snapshot without a stored hash, or whose stored hash is not
\* the hash of their text
NeedsUpdate(pr, sr) ==
  {id \in DOMAIN pr :
     id \notin DOMAIN sr \/ sr[id].text_hash # text_hash(concat_text(pr[id]))}

\* C11: a run sends to the embedding service only entities without a
\* stored hash or with a stored hash other than the fresh one, each in one
\* call at most, and all of them unless a call raises; an entity whose
\* text has the stored hash is in no call and its record is not written.
C11_EmbedsExactlyNewOrChanged ==
  [][IndexStep =>
       /\ SentIds(embedSent') \subseteq NeedsUpdate(projects, search)
       /\ raised' = "none" =>
            SentIds(embedSent') = NeedsUpdate(projects, search)
       /\ \A i, j \in 1..Len(embedSent') :
            i # j => Range(embedSent'[i].ids) \cap Range(embedSent'[j].ids) = {}
       /\ upserted' \subseteq SentIds(embedSent')
       /\ \A id \in DOMAIN search \ NeedsUpdate(projects, search) :
            search'[id] = search[id]]_vars

\* an indexed project with the same text is skipped while another is sent
C11_Witness ==
  /\ opName = "index.main"
  /\ raised = "none"
  /\ \E id \in DOMAIN projects \cap DOMAIN search :
       /\ id \notin SentIds(embedSent)
       /\ search[id].upsert.embedding < runNo
       /\ search[id].text_hash = text_hash(concat_text(projects[id]))
  /\ \E id \in DOMAIN projects : id \in upserted /\ id \in SentIds(embedSent)

\* C12: when an embedding call raises, it is the last call of the run, main
\* raises, and the entities of the calls before it are in the destination
\* with their fresh hash.
C12_EarlierBatchesCommitted ==
  (opName = "index.main" /\ \E i \in 1..Len(embedSent) : embedSent[i].vecs = -1)
  => /\ embedSent[Len(embedSent)].vecs = -1
     /\ raised # "none"
     /\ \A i \in 1..(Len(embedSent) - 1) :
          \A id \in Range(embedSent[i].ids) :
            /\ id \in DOMAIN search
            /\ search[id].text_hash = text_hash(concat_text(projects[id]))

\* C13: a call that returns a number of vectors other than the number of
\* its texts makes the run raise, and no entity of that call is upserted.
C13_VectorCountMismatchFails ==
  opName = "index.main" =>
    \A i \in 1..Len(embedSent) :
      (embedSent[i].vecs # -1 /\ embedSent[i].vecs # Len(embedSent[i].ids))
      => /\ raised # "none"
         /\ upserted \cap Range(embedSent[i].ids) = {}

\* C14: every stored record has the hash of the text its vector was
\* embedded from, and its fields, hash and vector come from one upsert.
C14_HashMatchesEmbeddedText ==
  \A id \in DOMAIN search :
    /\ search[id].text_hash = text_hash(search[id].embedding.of)
    /\ search[id].upsert.fields = search[id].upsert.text_hash
    /\ search[id].upsert.text_hash = search[id].upsert.embedding

DisplayFields(rec) ==
  [title |-> rec.title, abstract |-> rec.abstract, country |-> rec.country,
   year |-> rec.year]

\* the rows of two snapshots differ in one field of one common id only
OneFieldChanged(pr, qr, id) ==
  /\ id \in DOMAIN pr \cap DOMAIN qr
  /\ Cardinality({f \in {"title", "abstract", "country", "year"} :
                    pr[id][f] # qr[id][f]}) = 1

\* C15: a change of the value of one of title, abstract, country, year of
\* an indexed entity changes its hash, and a run that is not cut short
\* upserts every indexed entity whose stored fields are not its current ones.
C15_FieldChangeForcesReembedding ==
  /\ [][\A id \in DOMAIN search :
          (opName' = "build_dim_project" /\ OneFieldChanged(projects, projects', id))
          => text_hash(concat_text(projects'[id]))
               # text_hash(concat_text(projects[id]))]_vars
  /\ [][(IndexStep /\ raised' = "none"
           /\ \A i \in 1..Len(embedSent') :
                embedSent'[i].vecs = Len(embedSent'[i].ids))
        => \A id \in DOMAIN projects \cap DOMAIN search :
             DisplayFields(search[id]) # DisplayFields(insert_tuple(projects, id, <<>>))
             => /\ id \in upserted'
                /\ DisplayFields(search'[id])
                     = DisplayFields(insert_tuple(projects, id, <<>>))
                /\ search'[id].upsert.embedding = runNo']_vars

\* C16: a run deletes no record, and leaves as it was the record of every
\* entity that is absent from the snapshot or has the stored hash.
C16_NeverDeletesAndFrame ==
  [][IndexStep =>
       /\ DOMAIN search \subseteq DOMAIN search'
       /\ \A id \in DOMAIN search :
            (id \notin DOMAIN projects
               \/ search[id].text_hash = text_hash(concat_text(projects[id])))
            => search'[id] = search[id]]_vars

\* a record kept as it was while the run upserts another entity
C16_Witness ==
  /\ opName = "index.main"
  /\ raised = "none"
  /\ upserted # {}
  /\ \E id \in DOMAIN search :
       /\ id \notin upserted
       /\ search[id].upsert.embedding < runNo

\* ------------------------------------------------ the synchronizer's claims
SyncStep == opName' = "sync.run" /\ steps' # steps

LogNames(kind) ==
  {syncLog[i].name : i \in {j \in 1..Len(syncLog) : syncLog[j].kind = kind}}

\* C17: a synchronization run in which loading a table fails leaves every
\* table of the store with the contents it had before the run.
C17_FailedSyncRollsBack ==
  [][(SyncStep /\ raised' # "none") => store' = store]_vars

\* C18: in a run whose loop over the selected tables ended, the index
\* statements come after all the selected tables, in the fixed order, each
\* of them attempted even after one failed; the run does not raise and the
\* tables it loaded hold their snapshots.
C18_IndexesAfterTablesAndTolerated ==
  (opName = "sync.run" /\ "index" \in {syncLog[i].kind : i \in 1..Len(syncLog)})
  => LET sel == selected_tables(opTargets)
         n   == Len(sel)
     IN /\ raised = "none"
        /\ Len(syncLog) = n + Len(INDEX_STMTS)
        /\ \A i \in 1..n : /\ syncLog[i].kind \in {"replace", "skip"}
                           /\ syncLog[i].name = sel[i]
        /\ \A i \in 1..Len(INDEX_STMTS) :
             /\ syncLog[n + i].kind = "index"
             /\ syncLog[n + i].name = INDEX_STMTS[i].name
        /\ \A t \in LogNames("replace") : store[t] = gold[t]

\* a refused first index: the later ones are attempted, the tables stay
C18_Witness ==
  /\ opName = "sync.run"
  /\ raised = "none"
  /\ opTargets = {}
  /\ Len(syncLog) = Len(TABLES) + Len(INDEX_STMTS)
  /\ ~syncLog[Len(TABLES) + 1].ok
  /\ syncLog[Len(syncLog)].kind = "index"
  /\ \A t \in GoldTables : store[t] # <<>>

\* C19: every table loaded with N columns has a chunk size of at most
\* floor(MAX_PARAMS / N), so rows per statement times columns is at most
\* MAX_PARAMS.
C19_ChunkWithinMaxParams ==
  opName = "sync.run" =>
    \A i \in 1..Len(syncSummary) :
      syncSummary[i].status = "OK" =>
        /\ syncSummary[i].cols >= 1
        /\ syncSummary[i].chunksize >= 1
        /\ syncSummary[i].chunksize <= MAX_PARAMS \div syncSummary[i].cols
        /\ syncSummary[i].chunksize * syncSummary[i].cols <= MAX_PARAMS

\* 7 columns: 8571 rows per statement, 59997 parameters
C19_Witness ==
  /\ opName = "sync.run"
  /\ \E i \in 1..Len(syncSummary) :
       /\ syncSummary[i].status = "OK"
       /\ syncSummary[i].cols = 7
       /\ syncSummary[i].chunksize = 8571

\* C20: a selected table whose gold snapshot is missing or empty is never
\* the table at which a run fails and its table in the store is left as it
\* was; in a run that returns it is reported as skipped with 0 rows, and
\* every selected table after it is reported, the ones with a snapshot as
\* loaded.
C20_MissingSnapshotSkipped ==
  [][SyncStep =>
       LET sel == selected_tables(opTargets')
       IN \A i \in 1..Len(sel) :
            gold[sel[i]] = <<>> =>
              /\ store'[sel[i]] = store[sel[i]]
              /\ sel[i] \notin {syncLog'[j].name :
                                  j \in {k \in 1..Len(syncLog') :
                                           syncLog'[k].kind = "error"}}
              /\ raised' = "none" =>
                   /\ Len(syncSummary') = Len(sel)
                   /\ syncSummary'[i] =
                        [table |-> sel[i], count |-> 0,
                         status |-> "SKIPPED (no data)",
                         chunksize |-> 0, cols |-> 0]
                   /\ syncLog'[i].kind = "skip"
                   /\ \A j \in (i + 1)..Len(sel) :
                        /\ syncSummary'[j].table = sel[j]
                        /\ gold[sel[j]] # <<>> =>
                             /\ syncSummary'[j].status = "OK"
                             /\ store'[sel[j]] = gold[sel[j]]]_vars

\* in TABLES order the skipped dim_organization comes before dim_time,
\* which is loaded
C20_Witness ==
  /\ opName = "sync.run"
  /\ raised = "none"
  /\ opTargets = {}
  /\ gold["dim_organization"] = <<>>
  /\ syncSummary[2].status = "SKIPPED (no data)"
  /\ store["dim_organization"] # <<>>
  /\ gold["dim_time"] # <<>>
  /\ syncSummary[4].status = "OK"
  /\ store["dim_time"] = gold["dim_time"]

\* ------------------------------------------------- the silver layer's claims
NoDuplicateKey(df, key) ==
  \A i, j \in 1..Len(df) : i # j => df[i][key] # df[j][key]

NoDuplicateRow(df) ==
  \A i, j \in 1..Len(df) : i # j => df[i] # df[j]

\* C21: after a handler has run, no silver snapshot holds two rows with
\* the same deduplication key: projectID in project (whole rows when the
\* column is missing), organisationID in organizations_info, whole rows in
\* organizations_project and topics.
C21_SilverHasNoDuplicateKey ==
  opName = "b2s.run_files" =>
    /\ silverRows["project"] # <<>> =>
         IF "projectID" \in DOMAIN silverRows["project"][1]
         THEN NoDuplicateKey(silverRows["project"], "projectID")
         ELSE NoDuplicateRow(silverRows["project"])
    /\ NoDuplicateKey(silverRows["organizations_info"], "organisationID")
    /\ NoDuplicateRow(silverRows["organizations_project"])
    /\ NoDuplicateRow(silverRows["topics"])

\* ----------------------------------------------- the claims on repeated runs
GoldRunStep ==
  /\ opName' \in {"s2g.run", "s2g.run_for_sources"}
  /\ steps' # steps

\* C22: a gold run (full or selective) that returns, executed again with
\* the same argument right after, leaves every gold table as the first
\* run left it.
C22_SecondGoldRunIsNoOp ==
  [][(GoldRunStep /\ opRepeat' /\ raised' = "none") => gold' = gold]_vars

\* a second full run over tables the first one built from silver
C22_Witness ==
  /\ opName = "s2g.run"
  /\ opTargets = {}
  /\ opRepeat
  /\ raised = "none"
  /\ Len(goldCalls) = Len(order)
  /\ gold["fact_funding"] # <<>>
  /\ gold["bridge_project_topic"] # <<>>

\* ... and a second selective run
C22_WitnessSelective ==
  /\ opName = "s2g.run"
  /\ opTargets = {"fact_funding", "dim_organization"}
  /\ opRepeat
  /\ raised = "none"
  /\ gold["fact_funding"] # <<>>

\* ---------------------------------------------------------- the API's claims
\* C23: a POST to /seed without valid credentials is answered 401 and
\* triggers no run of the lakehouse_full_run DAG.
C23_SeedRequiresAuth ==
  [][(steps' # steps /\ httpResp'.route = "POST /seed"
        /\ httpResp'.cred # "valid")
     => (httpResp'.status = 401 /\ dagRuns' = dagRuns)]_vars

\* C24: the destination of an upload changes only in the step that
\* replaces it with a temporary file holding the whole new content, and
\* an upload that ended rejected has left the files of bronze and the
\* temporary files of the directory as they were when it started.
C24_UploadAllOrNothing ==
  /\ [][\A f \in AllFiles :
          bronze'[f] # bronze[f] =>
            /\ upload.pc = "writing" /\ upload.target = f
            /\ upload.tmp \in DOMAIN tmpFiles
            /\ tmpFiles[upload.tmp] = upload.size
            /\ upload'.pc = "idle" /\ upload'.ok]_vars
  /\ []((upload.pc = "idle" /\ ~upload.ok)
          => upload.before = <<bronze, tmpFiles>>)

C26_SubsetRebuildsSourceToGold ==
  (opName = "run_subset" /\ raised = "none") =>
    \A i \in 1..Len(opFiles) :
      basename(opFiles[i]).name \in KnownFiles =>
        SOURCE_TO_GOLD(basename(opFiles[i]).name) \subseteq Range(goldCalls)

\* C27: in one gold run no builder function is invoked twice, and a full
\* run invokes every builder exactly once.
C27_BuilderInvokedAtMostOnce ==
  /\ \A i, j \in 1..Len(goldCalls) :
        i # j => TABLE_BUILDERS[goldCalls[i]] # TABLE_BUILDERS[goldCalls[j]]
  /\ (opName = "s2g.run" /\ opTargets = {} /\ raised = "none") =>
        \A b \in Builders :
          Cardinality({i \in 1..Len(goldCalls) :
                         TABLE_BUILDERS[goldCalls[i]] = b}) = 1

\* -------------------------------------------- the orchestrator's claims
\* C28: a failure of the store synchronization inside run_full does not
\* raise out of run_full: the summary has ok = false and the error text,
\* and ok = true only when the synchronization completed.
C28_SyncFailureIsReturned ==
  (opName = "run_full" /\ "sync.run" \in entryCalls) =>
    /\ raised = "none"
    /\ result.ok <=> (\A i \in 1..Len(syncLog) : syncLog[i].kind # "error")
    /\ result.ok <=> result.error = ""

\* the first tables are loaded, the next load raises, run_full returns
C28_Witness ==
  /\ opName = "run_full"
  /\ "sync.run" \in entryCalls
  /\ raised = "none"
  /\ ~result.ok
  /\ result.error # ""
  /\ \E i \in 1..Len(syncLog) : syncLog[i].kind = "error"

\* the synchronization completed
C28_WitnessOk ==
  /\ opName = "run_full"
  /\ result.ok
  /\ syncLog # <<>>
  /\ store = load_tables(TABLES, gold, store)
  /\ \E t \in GoldTables : store[t] # <<>>

\* C29: run_subset never invokes the store synchronizer: it leaves the
\* relational store as it was, and gold_synced is the sorted list of the
\* gold targets selected for rebuild, whether or not a builder wrote.
C29_SubsetNeverSyncs ==
  [][(opName' = "run_subset" /\ steps' # steps) =>
       /\ store' = store
       /\ "sync.run" \notin entryCalls'
       /\ UNCHANGED syncVars
       /\ raised' = "none" =>
            result'.gold_synced =
              sorted_targets(gold_targets_for_sources(
                               normalize_changed_files(opFiles')))]_vars

\* organization.csv changed: dim_organization is reported although its
\* builder found no silver snapshot and wrote nothing
C29_Witness ==
  /\ opName = "run_subset"
  /\ raised = "none"
  /\ result.gold_synced = <<"dim_organization">>
  /\ gold["dim_organization"] = <<>>
  /\ goldCalls = <<"dim_organization">>

\* project.csv changed: seven targets, sorted, gold rebuilt and the store
\* still without it
C29_WitnessSorted ==
  /\ opName = "run_subset"
  /\ raised = "none"
  /\ Len(result.gold_synced) = 7
  /\ result.gold_synced[1] = "bridge_project_program"
  /\ result.gold_synced[7] = "fact_funding"
  /\ gold["dim_project"] # <<>>
  /\ store["dim_project"] # gold["dim_project"]

SetFailureSwallowed ==
  [][(opName' = "run_etl_subset" /\ pc = "etl" /\ unsavedChanged' # <<>>) =>
       /\ raised' = "none"
       /\ pc' = "index"
       /\ persisted' = persisted]_vars

\* C30 as stated: a failure to persist the mapping at the end of
\* run_etl_subset is swallowed, the task succeeds and the previous mapping
\* stays, so that every file of that cycle is reported as changed again
\* by the next detection.
C30_UnsavedChangeSetReportedAgain ==
  /\ SetFailureSwallowed
  /\ [](opName = "wait_for_bronze_updates" =>
          Names(unsavedChanged) \subseteq Names(xcomChanged))

\* C30 amended: ... so that every file of that cycle that the detection
\* had found with a greater mtime (or without a persisted entry) is
\* reported as changed again by the next detection.
C30_UnsavedNewerFilesReportedAgain ==
  /\ SetFailureSwallowed
  /\ [](opName = "wait_for_bronze_updates" =>
          unsavedNewer \subseteq Names(xcomChanged))

\* run_subset returned for project.csv, Variable.set failed, the indexing
\* ran, and the next unforced detection reports project.csv again
C30_Witness ==
  /\ opName = "wait_for_bronze_updates"
  /\ ~force
  /\ unsavedNewer = {"project.csv"}
  /\ unsavedChanged = <<Bare("project.csv")>>
  /\ "project.csv" \notin DOMAIN persisted
  /\ xcomChanged = <<Bare("project.csv")>>
  /\ pc = "etl"

====
